---- MODULE Spec2Model ----
(***************************************************************************)
(* How It Lands - backend analysis session (server/index.js), the reviewer *)
(* helper (server/lib/reviewerAgent.js) and the bulk store                 *)
(* (server/lib/elasticsearch.js), as a state machine.                      *)
(*                                                                         *)
(* One step of the model is one turn of the Node event loop: the code that *)
(* runs from the resumption of an awaited external call (agent, reviewer,  *)
(* bulk store) or a timer callback up to the next external call.           *)
(***************************************************************************)
EXTENDS Integers, Sequences, FiniteSets, TLC

\* ---------------------------------------------------------------------------
\* Bounds of the model
\* ---------------------------------------------------------------------------

\* Most elements (angles and null entries) the concepts arrays of one
\* analysis may hold, and so most secondary records it may accumulate.
MaxStage2 == 1

\* Most keep-alive heartbeats one session may write.
MaxPings == 1

\* Most workers that succeed in a session observed together with its heartbeats.
MaxRecords == 2

\* Most primary records handed to getReview when it is called directly.
MaxReviewed == 2

\* Most pieces a conflict label handed to normalizeConflict is made of.
MaxPieces == 4

\* Most elements of the steps array of an agent response.
MaxSteps == 2

\* Most analyses of an enumerated history.
MaxHistory == 4

\* Latest value of the clock: of Date.now() in a session, of created_at in an
\* enumerated history.
MaxClock == 1

\* Most analyses an index searched for similar jokes or deleted from holds.
MaxIndexed == 2

\* Most characters of a limit query value of /api/similar.
MaxLimitChars == 3

\* Most records that a session of the browser model has streamed.
MaxStreamed == 2

\* ---------------------------------------------------------------------------
\* Program constants
\* ---------------------------------------------------------------------------

\* index.js:87-94, each name as its sequence of characters
perspectives ==
    << <<"L","i","t","e","r","a","l">>,
       <<"I","n","f","e","r","r","e","d">>,
       <<"A","m","b","i","g","u","i","t","y"," ","S","p","o","t","t","e","r">>,
       <<"T","h","e"," ","S","k","e","p","t","i","c">>,
       <<"T","h","e"," ","F","a","n">>,
       <<"T","h","e"," ","S","u","r","r","e","a","l","i","s","t">> >>

\* index.js:78
line_id == "l1"

\* String.prototype.toLowerCase on the letters the role names and the
\* conflict labels use
toLowerCase(c) ==
    LET up == [A |-> "a", D |-> "d", F |-> "f", I |-> "i", L |-> "l", N |-> "n",
               S |-> "s", T |-> "t", V |-> "v", X |-> "x", Y |-> "y"]
    IN  IF c \in DOMAIN up THEN up[c] ELSE c

RECURSIVE Join(_)
\* the characters of a string, joined
Join(cs) == IF cs = <<>> THEN "" ELSE Head(cs) \o Join(Tail(cs))

\* index.js:103  role.toLowerCase().replace(/ /g, '_')
roleIdOf(role) ==
    Join([i \in 1..Len(role) |->
            IF toLowerCase(role[i]) = " " THEN "_" ELSE toLowerCase(role[i])])

\* the workers, by position in perspectives
Roles == 1..Len(perspectives)

\* roleId of each worker
roleId == [r \in Roles |-> roleIdOf(perspectives[r])]

\* JavaScript null / undefined
Null == [null |-> TRUE]

\* a JavaScript array holding the elements of items
Array(items) == [array |-> items]

\* Array.isArray
isArray(v) == "array" \in DOMAIN v

\* a JavaScript string, as its sequence of characters
Str(cs) == [chars |-> cs]

\* typeof v === 'string', for a string held as characters
isStr(v) == "chars" \in DOMAIN v

\* a JavaScript number
Num(n) == [num |-> n]

\* A string that the code parses is held as its sequence of lexemes: a fence
\* marker, a run of white space, a brace, a word of prose (Tok), or the
\* serialization of one JSON value (Doc).  Members that the code only copies
\* (agent_mode, angle_name, risk_level) are held as plain values.
Tok(t) == [tok |-> t]

\* the lexemes: three backquotes followed by json, three backquotes, a run
\* of white space, the two braces, a word of prose
FenceJson == Tok("fence json")
Fence == Tok("fence")
Space == Tok(" ")
Open  == Tok("{")
Close == Tok("}")
Prose == Tok("prose")
Doc(v) == [json |-> v]
Text(segs) == [lexemes |-> segs]

\* typeof v === 'string', for a string held as lexemes
isText(v) == "lexemes" \in DOMAIN v

\* typeof v === 'string'
isString(v) == isStr(v) \/ isText(v)

\* v is a plain object (not null, a number, a string or an array)
isObject(v) ==
    DOMAIN v \cap {"null", "num", "chars", "lexemes", "array", "threw"} = {}

\* v[k] for v other than null: undefined unless v is an object that has k
Get(v, k) == IF isObject(v) /\ k \in DOMAIN v THEN v[k] ELSE Null

\* ToBoolean(v)
truthy(v) ==
    IF "null" \in DOMAIN v THEN FALSE
    ELSE IF "num" \in DOMAIN v THEN v.num # 0
    ELSE IF isStr(v) THEN v.chars # <<>>
    ELSE IF isText(v) THEN v.lexemes # <<>>
    ELSE TRUE

\* ---------------------------------------------------------------------------
\* Strings: the library functions normalizeConflict uses
\* ---------------------------------------------------------------------------

\* the characters of the labels, in the order of their UTF-16 code units
CodeUnits ==
    << " ", ".", "/", "A", "D", "F", "I", "L", "N", "S", "T", "V", "X", "Y",
       "a", "c", "d", "e", "f", "h", "i", "l", "n", "o", "r", "s", "t", "v",
       "x", "y" >>

\* position of a character in that order
codeUnit(c) == CHOOSE i \in DOMAIN CodeUnits : CodeUnits[i] = c

RECURSIVE before(_, _)
\* a < b as Array.prototype.sort compares two strings by default
before(a, b) ==
    IF b = <<>> THEN FALSE
    ELSE IF a = <<>> THEN TRUE
    ELSE IF Head(a) = Head(b) THEN before(Tail(a), Tail(b))
    ELSE codeUnit(Head(a)) < codeUnit(Head(b))

RECURSIVE insert(_, _)
insert(x, sorted) ==
    IF sorted = <<>> THEN <<x>>
    ELSE IF before(x, Head(sorted)) THEN <<x>> \o sorted
    ELSE <<Head(sorted)>> \o insert(x, Tail(sorted))

RECURSIVE sort(_)
\* Array.prototype.sort() on an array of strings
sort(parts) == IF parts = <<>> THEN <<>> ELSE insert(Head(parts), sort(Tail(parts)))

\* String.prototype.startsWith
startsWith(cs, sep) == Len(cs) >= Len(sep) /\ SubSeq(cs, 1, Len(sep)) = sep

\* String.prototype.includes
includes(cs, sep) ==
    \E i \in 1..Len(cs) : startsWith(SubSeq(cs, i, Len(cs)), sep)

RECURSIVE splitFrom(_, _, _)
\* the parts of cs after the part cur begun before it
splitFrom(cs, sep, cur) ==
    IF cs = <<>> THEN <<cur>>
    ELSE IF startsWith(cs, sep)
           THEN <<cur>> \o splitFrom(SubSeq(cs, Len(sep) + 1, Len(cs)), sep, <<>>)
           ELSE splitFrom(Tail(cs), sep, Append(cur, Head(cs)))

\* String.prototype.split on a non-empty separator
split(cs, sep) == splitFrom(cs, sep, <<>>)

RECURSIVE join(_, _)
\* Array.prototype.join
join(parts, sep) ==
    IF parts = <<>> THEN <<>>
    ELSE IF Len(parts) = 1 THEN Head(parts)
    ELSE Head(parts) \o sep \o join(Tail(parts), sep)

RECURSIVE removePeriods(_)
\* replace(/\./g, '')
removePeriods(cs) ==
    IF cs = <<>> THEN <<>>
    ELSE IF Head(cs) = "." THEN removePeriods(Tail(cs))
    ELSE <<Head(cs)>> \o removePeriods(Tail(cs))

\* ---------------------------------------------------------------------------
\* Inputs drawn by the environment
\* ---------------------------------------------------------------------------

\* line_text values of a request body: missing, not a string, empty,
\* whitespace only, and a line with surrounding blanks
RequestBodies ==
    { [type |-> "undefined", chars |-> <<>>],
      [type |-> "number",    chars |-> <<>>],
      [type |-> "string",    chars |-> <<>>],
      [type |-> "string",    chars |-> <<" ", " ">>],
      [type |-> "string",    chars |-> <<" ", "h", "i", " ">>] }

\* What the extraction chain of a worker recovers from an agent response:
\* nothing (Null), or a record whose agent_mode is whatever the text said.
\* Its concepts field is an array of n angles ...
Concepts(n) == Array([i \in 1..n |-> [angle_name |-> i]])

\* ... an array whose last element is null, after n angles ...
ConceptsThenNull(n) == Array(Append(Concepts(n).array, Null))

Extracted ==
    { Null }
    \cup { [agent_mode |-> m, concepts |-> Concepts(n)] :
             m \in {"literal", "other"}, n \in 0..MaxStage2 }
    \cup { [agent_mode |-> "other", concepts |-> ConceptsThenNull(n)] :
             n \in 0..(MaxStage2 - 1) }

\* ... or is missing
ExtractedPlain ==
    { Null }
    \cup { [agent_mode |-> m, concepts |-> Null] : m \in {"literal", "other"} }
    \cup { [agent_mode |-> "other", concepts |-> ConceptsThenNull(0)] }

\* ... or holds one or two angles, or an angle and then null
ExtractedRich ==
    { Null }
    \cup { [agent_mode |-> "other", concepts |-> c] :
             c \in { Null, Concepts(1), Concepts(2), ConceptsThenNull(1) } }

\* ---------------------------------------------------------------------------
\* State
\* ---------------------------------------------------------------------------
VARIABLES
    arg,             \* argument of a function that is called directly
    ret,             \* what that call returned
    req,             \* req.body.line_text of the request received   (index.js:52)
    env,             \* process.env: which configuration variables are set
    server,          \* "starting" | "listening" | "exited"       (index.js:437)
    reviewerEnabled, \* index.js:17
    pc,              \* where the /api/analyze handler is suspended
    status,          \* HTTP status of the response, 0 while none is set
    set_id,          \* index.js:77
    line_text,       \* the trimmed line under analysis
    worker,          \* per role: "idle" | "inflight" | "succeeded" |
                     \*   "interrupted" (threw after its push) | "failed"
    stage1Results,   \* index.js:96
    stage2Results,   \* index.js:97
    completedCount,  \* index.js:98
    stage3,          \* the assessment awaiting its store (index.js:241)
    events,          \* SSE events written to the response, in order
    keepAlive,       \* the 15 s interval is active              (index.js:73)
    resEnded,        \* res.end() was called
    now,             \* Date.now()
    agentCalls,      \* conversation ids handed to callAgentBuilderConverse
    reviewArg,       \* stage1 argument of a direct getReview call
    client,          \* the browser: React state of App, locals of handleGenerate, the stream
    reviewerLog,     \* callReviewerAgent requests issued, each with its outcome
    esLog,           \* requests other than _bulk issued to Elasticsearch, each with its outcome
    bulkBody,        \* documents of the _bulk request in flight
    bulkLog,         \* _bulk requests issued, each with its outcome
    stored,          \* what each storeDocsToES call of the session returned or threw
    esDocs           \* documents in the index

vars == << arg, ret, req, env, server, reviewerEnabled, pc, status, set_id, line_text, worker,
           stage1Results, stage2Results, completedCount, stage3, events,
           keepAlive, resEnded, now, agentCalls, reviewArg, client, esLog, reviewerLog,
           bulkBody, bulkLog, stored, esDocs >>

\* the part of the state a session's handler writes
sessionVars == << pc, stage3, events, keepAlive, resEnded, reviewerLog,
                  bulkBody, bulkLog, stored, esDocs >>

\* ---------------------------------------------------------------------------
\* Helpers of the handler
\* ---------------------------------------------------------------------------

RECURSIVE trimStart(_)
trimStart(cs) ==
    IF cs # <<>> /\ Head(cs) = " " THEN trimStart(Tail(cs)) ELSE cs

RECURSIVE trimEnd(_)
trimEnd(cs) ==
    IF cs # <<>> /\ cs[Len(cs)] = " " THEN trimEnd(SubSeq(cs, 1, Len(cs) - 1)) ELSE cs

\* String.prototype.trim
trim(cs) == trimEnd(trimStart(cs))

RECURSIVE dropSpace(_)
\* \s* at the start of a string of lexemes
dropSpace(segs) ==
    IF segs # <<>> /\ Head(segs) = Space THEN dropSpace(Tail(segs)) ELSE segs

RECURSIVE dropSpaceEnd(_)
\* \s* at the end of a string of lexemes
dropSpaceEnd(segs) ==
    IF segs # <<>> /\ segs[Len(segs)] = Space
      THEN dropSpaceEnd(SubSeq(segs, 1, Len(segs) - 1))
      ELSE segs

\* index.js:138  the three replace calls that strip a leading
\*               and a trailing fence marker, then trim()
stripFences(segs) ==
    LET s1 == IF segs # <<>> /\ Head(segs) = FenceJson
                THEN dropSpace(Tail(segs)) ELSE segs
        s2 == IF s1 # <<>> /\ Head(s1) = Fence
                THEN dropSpace(Tail(s1)) ELSE s1
        s3 == IF s2 # <<>> /\ s2[Len(s2)] = Fence
                THEN dropSpaceEnd(SubSeq(s2, 1, Len(s2) - 1)) ELSE s2
    IN  dropSpaceEnd(dropSpace(s3))

\* JSON.parse: the text is one JSON value, white space around it allowed;
\* ok is FALSE where JSON.parse throws SyntaxError
JSONparse(segs) ==
    LET t == dropSpaceEnd(dropSpace(segs))
    IN  IF Len(t) = 1 /\ "json" \in DOMAIN t[1]
          THEN [ok |-> TRUE, value |-> t[1].json]
          ELSE [ok |-> FALSE, value |-> Null]

\* JSON.stringify of a JSON value
JSONstringify(v) == Text(<< Doc(v) >>)

\* the serialization of v has braces in it
braced(v) ==
    \/ isObject(v)
    \/ isArray(v) /\ v.array # <<>>
    \/ isText(v) /\ \E i \in DOMAIN v.lexemes :
                       \/ v.lexemes[i] \in {Open, Close}
                       \/ "json" \in DOMAIN v.lexemes[i]

\* the lexeme holds a '{', a '}'
opens(seg)  == seg = Open \/ ("json" \in DOMAIN seg /\ braced(seg.json))
closes(seg) == seg = Close \/ ("json" \in DOMAIN seg /\ braced(seg.json))

\* index.js:145-147  text.match(/\{[\s\S]*\}/) and JSON.parse(match[0]): the
\* span from the first '{' to the last '}' parses when it is one object
matchBraces(segs) ==
    LET O == { i \in DOMAIN segs : opens(segs[i]) }
        first == CHOOSE i \in O : \A j \in O : i <= j
        C == { i \in DOMAIN segs : closes(segs[i]) /\ i >= first }
        last == CHOOSE i \in C : \A j \in C : j <= i
    IN  IF O = {} \/ C = {} THEN [ok |-> FALSE, value |-> Null]
        ELSE IF first = last /\ isObject(segs[first].json)
               THEN [ok |-> TRUE, value |-> segs[first].json]
               ELSE [ok |-> FALSE, value |-> Null]

\* index.js:141, 148  parsed.feedback_text || parsed.relatability
shapeValid(parsed) ==
    truthy(Get(parsed, "feedback_text")) \/ truthy(Get(parsed, "relatability"))

\* index.js:136-153  parseCandidate.  A text that is not a string makes both
\* text.replace and text.match throw, and both throws are caught; a parsed
\* null makes parsed.feedback_text throw into the regex branch.
parseCandidate(text) ==
    IF ~isText(text) THEN Null
    ELSE LET p == JSONparse(stripFences(text.lexemes))
             m == matchBraces(text.lexemes)
         IN  IF p.ok /\ p.value # Null
               THEN IF shapeValid(p.value) THEN p.value ELSE Null
               ELSE IF m.ok /\ shapeValid(m.value) THEN m.value ELSE Null

\* the agent call of a worker threw, or its continuation threw
Threw == [threw |-> TRUE]

\* index.js:156-161  if (!result && candidate) result = parseCandidate(candidate)
tryNext(result, candidate) ==
    IF ~truthy(result) /\ truthy(candidate) THEN parseCandidate(candidate) ELSE result

RECURSIVE searchSteps(_, _)
\* index.js:165-171  the loop over steps, from element i on: step.type of a
\* null element throws TypeError
searchSteps(steps, i) ==
    IF i > Len(steps) THEN Null
    ELSE IF steps[i] = Null THEN Threw
    ELSE IF /\ isObject(steps[i])
            /\ "type" \in DOMAIN steps[i]
            /\ steps[i].type = "message_creation"
            /\ truthy(Get(steps[i], "content"))
           THEN LET r == parseCandidate(steps[i].content)
                IN  IF truthy(r) THEN r ELSE searchSteps(steps, i + 1)
           ELSE searchSteps(steps, i + 1)

\* index.js:164-172  Strategy 3, with the result of the strategies before it
trySteps(result, steps) ==
    IF ~truthy(result) /\ truthy(steps) /\ isArray(steps)
      THEN searchSteps(steps.array, 1) ELSE result

\* index.js:175-178  Strategy 4: the whole response, serialized
tryWhole(result, agentResponse) ==
    IF result # Threw /\ ~truthy(result)
      THEN parseCandidate(JSONstringify(agentResponse)) ELSE result

\* index.js:181-184  a result that is a string is parsed once more
reParse(result) ==
    IF result # Threw /\ truthy(result) /\ isString(result)
      THEN LET reParsed == parseCandidate(result)
           IN  IF truthy(reParsed) THEN reParsed ELSE result
      ELSE result

\* index.js:134-184  what the worker recovers from agentResponse: a record,
\* Null, or Threw where the chain throws into the catch of the worker.
\* r1..r6 are the successive values of `result`, each computed once.
extract(agentResponse) ==
    IF agentResponse = Null THEN Threw
    ELSE CHOOSE result \in
           { reParse(r6) :
               r6 \in { tryWhole(r5, agentResponse) :
               r5 \in { trySteps(r4, Get(agentResponse, "steps")) :
               r4 \in { tryNext(r3, Get(Get(agentResponse, "response"), "output")) :
               r3 \in { tryNext(r2, Get(Get(agentResponse, "response"), "message")) :
               r2 \in { tryNext(r1, Get(agentResponse, "message")) :
               r1 \in { tryNext(Null, Get(agentResponse, "output")) } } } } } } } : TRUE

\* the separator of a conflict label
vs == <<" ", "v", "s", " ">>

\* reviewerAgent.js:119-133
normalizeConflict(conflict) ==
    IF ~isStr(conflict) \/ conflict.chars = <<>> THEN Null
    ELSE LET normalized ==
                 removePeriods([i \in DOMAIN conflict.chars |->
                                   toLowerCase(conflict.chars[i])])
         IN  IF includes(normalized, vs)
               THEN LET parts == split(normalized, vs)
                    IN  Str(join(sort([i \in DOMAIN parts |-> trim(parts[i])]), vs))
               ELSE Str(normalized)

\* reviewerAgent.js:144-151  the value result starts with
pendingResult ==
    [reasoning |-> "Analysis pending...",
     divergence_score |-> 0,
     risk_level |-> "unknown",
     primary_conflict |->
         Str(<<"N","o","n","e"," ","d","e","t","e","c","t","e","d">>),
     conflict_summary |-> "Insufficient data for analysis",
     recommendation |-> "No recommendation available"]

\* { ...result, ...parsed }: the own enumerable properties of parsed, which
\* null and a number have none of and an array has under its indices
spread(result, parsed) ==
    IF isObject(parsed)
      THEN [k \in DOMAIN result \cup DOMAIN parsed |->
               IF k \in DOMAIN parsed THEN parsed[k] ELSE result[k]]
    ELSE IF isArray(parsed)
      THEN LET index == [i \in DOMAIN parsed.array |-> ToString(i - 1)]
               keys == { index[i] : i \in DOMAIN index }
           IN  [k \in DOMAIN result \cup keys |->
                  IF k \in keys
                    THEN parsed.array[CHOOSE i \in DOMAIN index : index[i] = k]
                    ELSE result[k]]
    ELSE result

RECURSIVE mergeSteps(_, _, _)
\* reviewerAgent.js:156-163  the loop over steps, from element i on, with
\* result as it stands: step.type of a null element throws TypeError
mergeSteps(result, steps, i) ==
    IF i > Len(steps) THEN [result |-> result, threw |-> FALSE]
    ELSE IF steps[i] = Null THEN [result |-> result, threw |-> TRUE]
    ELSE LET data == Get(Get(steps[i], "params"), "data")
         IN  IF /\ isObject(steps[i])
                /\ "type" \in DOMAIN steps[i]
                /\ steps[i].type = "tool_call"
                /\ isObject(data)
                /\ "divergence_score" \in DOMAIN data
               THEN mergeSteps(spread(result, data), steps, i + 1)
               ELSE mergeSteps(result, steps, i + 1)

\* reviewerAgent.js:169-172  the first of output, message, response.message
\* that is truthy, else the payload itself, serialized unless it is a string
jsonContent(agentResponse) ==
    IF truthy(Get(agentResponse, "output")) THEN agentResponse.output
    ELSE IF truthy(Get(agentResponse, "message")) THEN agentResponse.message
    ELSE IF truthy(Get(Get(agentResponse, "response"), "message"))
      THEN agentResponse.response.message
    ELSE IF isString(agentResponse) THEN agentResponse
    ELSE JSONstringify(agentResponse)

\* reviewerAgent.js:174-199  what is merged from content.  A string of
\* characters is a label: no JSON, no brace.
mergeContent(result, content) ==
    IF isText(content)
      THEN LET stripped == stripFences(content.lexemes)
               p == JSONparse(stripped)
               m == matchBraces(stripped)
           IN  IF p.ok THEN spread(result, p.value)
               ELSE IF m.ok THEN spread(result, m.value)
               ELSE result
    ELSE IF isObject(content) /\ "divergence_score" \in DOMAIN content
      THEN spread(result, content)
    ELSE result

\* reviewerAgent.js:167-201  the fallback, taken while risk_level is 'unknown'
fallback(result, agentResponse) ==
    IF result.risk_level = "unknown"
      THEN CHOOSE merged \in
             { mergeContent(result, content) :
                 content \in { jsonContent(agentResponse) } } : TRUE
      ELSE result

\* reviewerAgent.js:204-206
normalizePrimary(result) ==
    IF truthy(result.primary_conflict)
      THEN LET normalized == normalizeConflict(result.primary_conflict)
           IN  [result EXCEPT !.primary_conflict =
                   IF truthy(normalized) THEN normalized ELSE @]
      ELSE result

\* reviewerAgent.js:140-215  parseReviewerResponse: the record returned, or
\* Threw where Object.keys(agentResponse) throws.  A throw of the loop over
\* steps is caught at 209 and result is returned as it stands.
parseReviewerResponse(agentResponse) ==
    IF agentResponse = Null THEN Threw
    ELSE LET steps == Get(agentResponse, "steps")
         IN  CHOOSE returned \in
               { IF s.threw
                   THEN s.result
                   ELSE normalizePrimary(fallback(s.result, agentResponse)) :
                   s \in { IF truthy(steps) /\ isArray(steps)
                             THEN mergeSteps(pendingResult, steps.array, 1)
                             ELSE [result |-> pendingResult, threw |-> FALSE] } } : TRUE

\* Two replies of the reviewer in a session: prose that holds no JSON, and an
\* assessment handed over in a tool_call step
ReviewerReplies ==
    { [conversation_id |-> Str(<<"c", "1">>), response |-> [message |-> Text(<< Prose >>)]],
      [conversation_id |-> Str(<<"c", "1">>),
       steps |-> Array(<< [type |-> "tool_call",
                           params |-> [data |->
                               [divergence_score |-> 72, risk_level |-> "high",
                                primary_conflict |->
                                    Str(<<"T","h","e"," ","F","a","n"," ","v","s",
                                          "."," ","L","i","t","e","r","a","l">>)]]]
                       >>)] }

\* reviewerAgent.js:240  what getReview returns for them
ReviewerAssessments == { parseReviewerResponse(r) : r \in ReviewerReplies }

\* a validation that does not trim: a whitespace-only line is accepted
validLineNoTrim(b) == b.type = "string" /\ b.chars # <<>>

\* index.js:54  the request is accepted
validLine(b) == b.type = "string" /\ b.chars # <<>> /\ Len(trim(b.chars)) # 0

\* one conversation id for the whole session
conversationIdOfSession(sid, r) == [set_id |-> sid, roleId |-> <<>>]

\* index.js:128  conversation id of one worker's agent call
conversationId(sid, r) == [set_id |-> sid, roleId |-> roleId[r]]

\* a feedback id made of the clock alone
feedbackIdOfClock(r, t) == [f |-> <<>>, ts |-> t]

\* index.js:188  `f_${roleId}_${Date.now()}`
feedbackIdOf(r, t) == [f |-> roleId[r], ts |-> t]

\* a concept id made of the ordinal position alone
conceptIdOfPosition(fid, idx) == [c |-> <<>>, idx |-> idx]

\* index.js:198  `c_${feedbackId}_${idx}`
conceptIdOf(fid, idx) == [c |-> fid, idx |-> idx]

\* a record that takes its content from the record a sibling appended first
primaryRecordOfSibling(result, r, t) ==
    [(IF stage1Results = <<>> THEN result ELSE stage1Results[1])
        EXCEPT !.agent_mode = roleId[r]]
    @@ [feedback_id |-> feedbackIdOf(r, t)]

\* the extracted record keeps the agent_mode its text carries
primaryRecordKeepsMode(result, r, t) ==
    result @@ [feedback_id |-> feedbackIdOf(r, t)]

\* index.js:189-190  the extracted record with the worker's identity forced
primaryRecord(result, r, t) ==
    [result EXCEPT !.agent_mode = roleId[r]] @@ [feedback_id |-> feedbackIdOf(r, t)]

\* index.js:195-205  concept.angle_name of a null element throws TypeError
conceptThrows(rec) ==
    isArray(rec.concepts) /\ \E i \in DOMAIN rec.concepts.array : rec.concepts.array[i] = Null

\* the number of concepts that forEach visits before it returns or throws
visited(concepts) ==
    Cardinality({ i \in DOMAIN concepts :
                    \A j \in 1..i : concepts[j] # Null })

\* index.js:195-206  secondary records of one primary record, idx from 0
secondaryRecords(rec, sid) ==
    IF isArray(rec.concepts)
      THEN [i \in 1..visited(rec.concepts.array) |->
              [concept_id         |-> conceptIdOf(rec.feedback_id, i - 1),
               parent_feedback_id |-> rec.feedback_id,
               set_id             |-> sid,
               angle_name         |-> rec.concepts.array[i].angle_name,
               explanation        |-> Get(rec.concepts.array[i], "explanation"),
               exploration_direction |->
                   Get(rec.concepts.array[i], "exploration_direction")]]
      ELSE <<>>

\* an append that overwrites what another worker appended meanwhile
pushLosesUpdate(arr, item) == IF Len(arr) >= 2 THEN Append(Tail(arr), item) ELSE Append(arr, item)

\* index.js:192  Array.prototype.push
push(arr, item) == Append(arr, item)

\* index.js:211  payload of a result_stage1 event
resultStage1(stage1, stage2) == [stage1 |-> stage1, stage2 |-> stage2]

\* index.js:212  payload of the progress event of a completed worker
received(r, count) ==
    [message |-> "Received perspective", role |-> roleId[r], count |-> count]

\* a join that resolves with the first worker to settle (Promise.race)
firstSettled(w) == \E q \in Roles : w[q] \in {"succeeded", "interrupted", "failed"}

\* index.js:222  Promise.all over the six workers has resolved
allSettled(w) == \A q \in Roles : w[q] \in {"succeeded", "interrupted", "failed"}

\* index.js:68-70
sendEvent(s, type, data) ==
    [s EXCEPT !.events = Append(@, [type |-> type, data |-> data])]

\* the finally block without clearInterval
finallyLeavesTimer(s) == [s EXCEPT !.resEnded = TRUE, !.pc = "closed"]

\* index.js:265-268
finally(s) == [s EXCEPT !.keepAlive = FALSE, !.resEnded = TRUE, !.pc = "closed"]

\* elasticsearch.js storeDocsToES, the documents built: agentBuilder.js:437-487.
\* A stage 2 document takes angle_id from item.angle_id || item.path_id and
\* direction from item.direction || item.direction_summary.
buildDocs(sid, stage1, stage2, st3) ==
    [i \in 1..Len(stage1) |->
        [set_id |-> sid, line_id |-> line_id, stage |-> 1,
         feedback_id |-> stage1[i].feedback_id,
         agent_mode |-> stage1[i].agent_mode, created_at |-> now]]
    \o
    [i \in 1..Len(stage2) |->
        [set_id |-> sid, line_id |-> line_id, stage |-> 2,
         angle_id |-> IF truthy(Get(stage2[i], "angle_id"))
                        THEN stage2[i].angle_id ELSE Get(stage2[i], "path_id"),
         parent_feedback_id |-> stage2[i].parent_feedback_id,
         angle_name |-> stage2[i].angle_name,
         direction |-> IF truthy(Get(stage2[i], "direction"))
                         THEN stage2[i].direction
                         ELSE Get(stage2[i], "direction_summary"),
         created_at |-> now]]
    \o
    (IF st3 # Null
       THEN << [set_id |-> sid, line_id |-> line_id, stage |-> 3, created_at |-> now,
                divergence_score |-> st3.divergence_score,
                risk_level |-> st3.risk_level,
                primary_conflict |-> st3.primary_conflict] >>
       ELSE <<>>)

\* reviewerAgent.js getReview: the record returned without calling the reviewer
degenerateReview ==
    [divergence_score |-> 0, risk_level |-> "low",
     primary_conflict |-> Str(<<"N", "/", "A">>),
     conflict_summary |-> "Insufficient data for analysis",
     recommendation |-> "Need more reactions to provide meaningful review"]

\* the guard with its threshold off by one
insufficientBelowOne(stage1) == stage1 = Null \/ Len(stage1.array) < 1

\* reviewerAgent.js:228  getReview answers without the external reviewer
insufficient(stage1) == stage1 = Null \/ Len(stage1.array) < 2

\* reviewerAgent.js:226-239  getReview up to its first suspension: either it
\* has issued the reviewer request (called), or it has returned result
getReview(stage1) ==
    IF insufficient(stage1)
      THEN [called |-> FALSE, result |-> degenerateReview]
      ELSE [called |-> TRUE,  result |-> Null]

\* the outcome of the request in flight, entered in a call log
settle(log, outcome) == [log EXCEPT ![Len(log)] = outcome]

\* the session as the handler sees it, and its write-back
Cur ==
    [pc |-> pc, stage3 |-> stage3, events |-> events, keepAlive |-> keepAlive,
     resEnded |-> resEnded, reviewerLog |-> reviewerLog,
     bulkBody |-> bulkBody, bulkLog |-> bulkLog, stored |-> stored,
     esDocs |-> esDocs]

Commit(s) ==
    /\ pc' = s.pc
    /\ stage3' = s.stage3
    /\ events' = s.events
    /\ keepAlive' = s.keepAlive
    /\ resEnded' = s.resEnded
    /\ reviewerLog' = s.reviewerLog
    /\ bulkBody' = s.bulkBody
    /\ bulkLog' = s.bulkLog
    /\ stored' = s.stored
    /\ esDocs' = s.esDocs

\* a storeDocsToES that issues its request whatever it has built
issuesBulkAlways(docs) == TRUE

\* agentBuilder.js:489-509  storeDocsToES up to its request: TRUE when a
\* _bulk request is issued, FALSE when there is nothing to store
issuesBulk(docs) == Len(docs) # 0

\* agentBuilder.js:489-492  what storeDocsToES returns when it issues no request
skipped == [indexed |-> 0, errors |-> FALSE]

\* A reply of Elasticsearch to a _bulk request: the response is not ok; or
\* it is ok and its items report an error for the documents at the
\* positions rejected, the other documents being indexed
NotOk == [ok |-> FALSE, rejected |-> {}]
Indexed(rejected) == [ok |-> TRUE, rejected |-> rejected]

\* the replies to a request that carries docs: not ok, every document
\* indexed, one document rejected, every document rejected
BulkReplies(docs) ==
    { NotOk, Indexed({}), Indexed(DOMAIN docs) }
    \cup { Indexed({i}) : i \in DOMAIN docs }

\* the documents of the request that the index holds after the reply
accepted(docs, reply) ==
    IF reply.ok
      THEN LET kept == SelectSeq([i \in DOMAIN docs |-> i],
                                 LAMBDA i : i \notin reply.rejected)
           IN  [j \in DOMAIN kept |-> docs[kept[j]]]
      ELSE <<>>

\* the reply as the log of _bulk requests records it
outcomeOf(reply) ==
    IF ~reply.ok THEN "failed"
    ELSE IF reply.rejected # {} THEN "errors" ELSE "ok"

\* a storeDocsToES that also throws when an item of the response has an error
bulkThrowsOnErrors(reply) == ~reply.ok \/ reply.rejected # {}

\* agentBuilder.js:502-505  if (!bulkResponse.ok) throw
bulkThrows(reply) == ~reply.ok

\* agentBuilder.js:507-517  {indexed: result.items.length, errors:
\* result.errors}: the response has one item per document of the request
bulkResult(docs, reply) == [indexed |-> Len(docs), errors |-> reply.rejected # {}]

\* storeDocsToES called with docs: the handler suspends at `at` on the request
storeDocsToES(s, docs, at) ==
    [s EXCEPT !.pc = at, !.bulkBody = docs, !.bulkLog = Append(@, "pending")]

\* index.js:260-268  the normal end of the handler
done(s, sid) == finally(sendEvent(s, "done", [set_id |-> sid]))

\* an outer catch that ends the response and leaves the interval running
outerCatchLeavesTimer(s) ==
    finallyLeavesTimer(sendEvent(s, "error", [message |-> "Analysis failed"]))

\* index.js:262-268  the handler's outer catch
outerCatch(s) == finally(sendEvent(s, "error", [message |-> "Analysis failed"]))

\* a worker's catch that rethrows: Promise.all rejects into the outer catch
perspectiveRethrows(s) == outerCatch(s)

\* index.js:215-218  the catch of analyzePerspective: logged, not rethrown
perspectiveCatch(s) == s

\* a synthesis failure that reaches the outer catch
reviewRethrows(s, sid) == outerCatch(s)

\* a synthesis failure answered by calling the reviewer again
reviewRetries(s, sid) ==
    [s EXCEPT !.pc = "review", !.reviewerLog = Append(@, "pending")]

\* index.js:254-268  the catch around synthesis, then the normal end
reviewCatch(s, sid) ==
    done(sendEvent(s, "error", [message |-> "Review generation failed"]), sid)

\* index.js:244-251  the handler with the assessment st3 in hand
afterReview(s, sid, st3) ==
    storeDocsToES([s EXCEPT !.stage3 = st3], buildDocs(sid, <<>>, <<>>, st3), "store2")

\* the guard without its test of stage1Results.length
reviewGuardNoCount(enabled, stage1) == enabled

\* index.js:237  synthesis is attempted
reviewGuard(enabled, stage1) == enabled /\ Len(stage1) > 0

\* index.js:236-260  the handler after the partial snapshot was stored
afterStore1(s, sid, enabled, stage1) ==
    IF reviewGuard(enabled, stage1)
      THEN LET p == sendEvent(s, "progress", [message |-> "Synthesizing reviews..."])
               g == getReview(Array(stage1))
           IN  IF g.called
                 THEN [p EXCEPT !.pc = "review",
                                !.reviewerLog = Append(@, "pending")]
                 ELSE afterReview(p, sid, g.result)
      ELSE done(s, sid)

\* index.js:222-234  the handler once Promise.all has resolved
afterFanout(s, sid, enabled, stage1, stage2) ==
    LET docs == buildDocs(sid, stage1, stage2, Null)
    IN  IF issuesBulk(docs)
          THEN storeDocsToES(s, docs, "store1")
          ELSE afterStore1([s EXCEPT !.stored = Append(@, skipped)],
                           sid, enabled, stage1)

\* ---------------------------------------------------------------------------
\* Initial state: the process before start() has run
\* ---------------------------------------------------------------------------
EnvNames == {"ES_URL", "ES_API_KEY", "KIBANA_URL", "KIBANA_API_KEY"}

Init ==
    /\ arg = Null
    /\ ret = Null
    /\ req = Null
    /\ env \in [EnvNames -> BOOLEAN]
    /\ server = "starting"
    /\ reviewerEnabled = FALSE
    /\ pc = "idle"
    /\ status = 0
    /\ set_id = Null
    /\ line_text = <<>>
    /\ worker = [r \in Roles |-> "idle"]
    /\ stage1Results = <<>>
    /\ stage2Results = <<>>
    /\ completedCount = 0
    /\ stage3 = Null
    /\ events = <<>>
    /\ keepAlive = FALSE
    /\ resEnded = FALSE
    /\ now = 0
    /\ agentCalls = <<>>
    /\ reviewArg = Null
    /\ client = Null
    /\ esLog = <<>>
    /\ reviewerLog = <<>>
    /\ bulkBody = <<>>
    /\ bulkLog = <<>>
    /\ stored = <<>>
    /\ esDocs = <<>>

\* ---------------------------------------------------------------------------
\* Startup
\* ---------------------------------------------------------------------------

\* elasticsearch.js validateESConfig does not throw
validateESConfig(e) == e["ES_URL"] /\ e["ES_API_KEY"]

\* a validation that lets a missing Kibana configuration pass
validateAgentConfigLax(e) == TRUE

\* agentBuilder.js validateAgentConfig does not throw
validateAgentConfig(e) == e["KIBANA_URL"] /\ e["KIBANA_API_KEY"]

\* reviewerAgent.js validateReviewerConfig
validateReviewerConfig(e) == e["KIBANA_URL"] /\ e["KIBANA_API_KEY"]

\* index.js:437-471  start(); indexOk: ensureIndex did not throw
start(indexOk) ==
    /\ server = "starting"
    /\ IF validateESConfig(env) /\ validateAgentConfig(env)
         THEN /\ reviewerEnabled' = validateReviewerConfig(env)
              /\ server' = IF indexOk THEN "listening" ELSE "exited"
         ELSE /\ reviewerEnabled' = reviewerEnabled
              /\ server' = "exited"
    /\ UNCHANGED << arg, ret, req, env, status, set_id, line_text, worker, stage1Results,
                    stage2Results, completedCount, now, agentCalls, reviewArg, client, esLog >>
    /\ UNCHANGED sessionVars

\* ---------------------------------------------------------------------------
\* POST /api/analyze
\* ---------------------------------------------------------------------------

\* uuidv4() of the session
uuidv4 == [uuid |-> 1]

\* the opening events in the wrong order
openingProgressFirst(sid) ==
    << [type |-> "progress",
        data |-> [message |-> "Consulting the council of comedy (6 perspectives)..."]],
       [type |-> "start", data |-> [set_id |-> sid, line_id |-> line_id]] >>

\* index.js:82-85  the events written before the fan-out
opening(sid) ==
    << [type |-> "start", data |-> [set_id |-> sid, line_id |-> line_id]],
       [type |-> "progress",
        data |-> [message |-> "Consulting the council of comedy (6 perspectives)..."]] >>

\* index.js:51-131  the handler up to the six agent calls
analyze(body) ==
    /\ server = "listening"
    /\ pc = "idle"
    /\ req' = body
    /\ IF ~validLine(body)
         THEN /\ status' = 400
              /\ pc' = "rejected"
              /\ resEnded' = TRUE
              /\ UNCHANGED << set_id, line_text, worker, agentCalls, events,
                              keepAlive >>
         ELSE /\ status' = 200
              /\ keepAlive' = TRUE
              /\ set_id' = uuidv4
              /\ line_text' = trim(body.chars)
              /\ events' = opening(uuidv4)
              /\ worker' = [r \in Roles |-> "inflight"]
              /\ agentCalls' = [r \in Roles |-> conversationId(uuidv4, r)]
              /\ pc' = "fanout"
              /\ resEnded' = resEnded
    /\ UNCHANGED << arg, ret, env, server, reviewerEnabled, stage1Results,
                    stage2Results, completedCount, stage3, now, reviewArg, client, esLog, reviewerLog,
                    bulkBody, bulkLog, stored, esDocs >>

RECURSIVE conceptCount(_)
\* number of elements in the concepts arrays of a list of records
conceptCount(list) ==
    IF list = <<>> THEN 0
    ELSE (IF isArray(Head(list).concepts) THEN Len(Head(list).concepts.array) ELSE 0)
         + conceptCount(Tail(list))

\* index.js:101-219 and 222-234  the agent call of worker r resolves: the call
\* threw, or the extraction chain yielded x (Null: no record).  A null
\* element of x.concepts throws at 200, after the push at 192 and before
\* completedCount++ and the two events; the catch at 215 only logs.
workerSettles(r, x) ==
    /\ pc = "fanout"
    /\ worker[r] = "inflight"
    /\ LET ok  == x # Threw /\ x # Null
           cut == ok /\ conceptThrows(x)
           rec == primaryRecord(x, r, now)
           st1 == IF ok THEN push(stage1Results, rec) ELSE stage1Results
           st2 == IF ok THEN stage2Results \o secondaryRecords(rec, set_id)
                        ELSE stage2Results
           cnt == IF ok /\ ~cut THEN completedCount + 1 ELSE completedCount
           w   == [worker EXCEPT ![r] = IF cut THEN "interrupted"
                                        ELSE IF ok THEN "succeeded" ELSE "failed"]
           s1  == IF ok /\ ~cut
                    THEN sendEvent(
                           sendEvent(Cur, "result_stage1", resultStage1(st1, st2)),
                           "progress", received(r, cnt))
                    ELSE IF x = Threw \/ cut THEN perspectiveCatch(Cur) ELSE Cur
       IN  /\ worker' = w
           /\ stage1Results' = st1
           /\ stage2Results' = st2
           /\ completedCount' = cnt
           /\ IF allSettled(w)
                THEN Commit(afterFanout(s1, set_id, reviewerEnabled, st1, st2))
                ELSE Commit(s1)
    /\ UNCHANGED << arg, ret, req, env, server, reviewerEnabled, status, set_id, line_text,
                    now, agentCalls, reviewArg, client, esLog >>

\* a worker settles in a session whose concepts arrays hold MaxStage2
\* elements at most
workerSettlesWithin(r, x) ==
    /\ (x # Threw /\ x # Null) =>
          conceptCount(stage1Results) + conceptCount(<< x >>) <= MaxStage2
    /\ workerSettles(r, x)

\* index.js:227-234, 262-268 and agentBuilder.js:502-517  the first _bulk
\* request is answered with reply
store1Responds(reply) ==
    /\ pc = "store1"
    /\ \E s \in { [Cur EXCEPT !.esDocs = @ \o accepted(bulkBody, reply),
                              !.bulkBody = <<>>,
                              !.bulkLog = settle(@, outcomeOf(reply))] } :
          IF bulkThrows(reply)
            THEN Commit(outerCatch([s EXCEPT !.stored = Append(@, Threw)]))
            ELSE Commit(afterStore1(
                          [s EXCEPT !.stored = Append(@, bulkResult(bulkBody, reply))],
                          set_id, reviewerEnabled, stage1Results))
    /\ UNCHANGED << arg, ret, req, env, server, reviewerEnabled, status, set_id, line_text,
                    worker, stage1Results, stage2Results, completedCount, now,
                    agentCalls, reviewArg, client, esLog >>

\* the first _bulk request returns: every document indexed, or not ok
store1Returns(ok) == store1Responds(IF ok THEN Indexed({}) ELSE NotOk)

\* index.js:241-257  the reviewer call returns: it threw (a = Threw), or
\* parseReviewerResponse made the assessment a of the response
reviewReturns(a) ==
    /\ pc = "review"
    /\ IF a = Threw
         THEN Commit(reviewCatch([Cur EXCEPT !.reviewerLog = settle(@, "threw")],
                                 set_id))
         ELSE Commit(afterReview([Cur EXCEPT !.reviewerLog = settle(@, "ok")],
                                 set_id, a))
    /\ UNCHANGED << arg, ret, req, env, server, reviewerEnabled, status, set_id, line_text,
                    worker, stage1Results, stage2Results, completedCount, now,
                    agentCalls, reviewArg, client, esLog >>

\* index.js:244-260 and agentBuilder.js:502-517  the second _bulk request
\* is answered with reply
store2Responds(reply) ==
    /\ pc = "store2"
    /\ \E s \in { [Cur EXCEPT !.esDocs = @ \o accepted(bulkBody, reply),
                              !.bulkBody = <<>>,
                              !.bulkLog = settle(@, outcomeOf(reply))] } :
          IF bulkThrows(reply)
            THEN Commit(reviewCatch([s EXCEPT !.stored = Append(@, Threw)], set_id))
            ELSE Commit(done(sendEvent(
                               [s EXCEPT !.stored = Append(@, bulkResult(bulkBody, reply))],
                               "result_stage3", [stage3 |-> stage3]),
                             set_id))
    /\ UNCHANGED << arg, ret, req, env, server, reviewerEnabled, status, set_id, line_text,
                    worker, stage1Results, stage2Results, completedCount, now,
                    agentCalls, reviewArg, client, esLog >>

\* the second _bulk request returns: the document indexed, or not ok
store2Returns(ok) == store2Responds(IF ok THEN Indexed({}) ELSE NotOk)

\* number of heartbeats written so far
pingCount == Cardinality({ i \in DOMAIN events : events[i].type = "ping" })

\* index.js:73-75  the keep-alive interval fires
ping ==
    /\ keepAlive
    /\ pingCount < MaxPings
    /\ Commit(sendEvent(Cur, "ping", [timestamp |-> now]))
    /\ UNCHANGED << arg, ret, req, env, server, reviewerEnabled, status, set_id, line_text,
                    worker, stage1Results, stage2Results, completedCount, now,
                    agentCalls, reviewArg, client, esLog >>

\* Date.now() advances while the workers are in flight; a worker reads it
\* when it builds its feedback_id (index.js:188)
tick ==
    /\ pc = "fanout"
    /\ now < MaxClock
    /\ now' = now + 1
    /\ UNCHANGED << arg, ret, req, env, server, reviewerEnabled, status, set_id, line_text,
                    worker, stage1Results, stage2Results, completedCount,
                    agentCalls, reviewArg, client, esLog >>
    /\ UNCHANGED sessionVars

\* a worker settles in a session in which at most MaxRecords workers succeed
workerSettlesFew(r, x) ==
    /\ (x # Threw /\ x # Null) => Len(stage1Results) < MaxRecords
    /\ workerSettlesWithin(r, x)

\* a worker settles in a session in which at most MaxRecords workers extract
\* a record, whatever its concepts
workerSettlesRich(r, x) ==
    /\ (x # Threw /\ x # Null) => Len(stage1Results) < MaxRecords
    /\ workerSettles(r, x)

\* The session between the suspension points of its handler
Next ==
    \/ \E indexOk \in BOOLEAN : start(indexOk)
    \/ \E body \in RequestBodies : analyze(body)
    \/ \E r \in Roles, x \in Extracted \cup {Threw} : workerSettlesWithin(r, x)
    \/ \E ok \in BOOLEAN : store1Returns(ok)
    \/ \E a \in ReviewerAssessments \cup {Threw} : reviewReturns(a)
    \/ \E ok \in BOOLEAN : store2Returns(ok)

Spec == Init /\ [][Next]_vars

\* The session together with its keep-alive timer
NextKeepAlive ==
    \/ \E indexOk \in BOOLEAN : start(indexOk)
    \/ \E body \in RequestBodies : analyze(body)
    \/ \E r \in Roles, x \in ExtractedPlain \cup {Threw} : workerSettlesFew(r, x)
    \/ \E ok \in BOOLEAN : store1Returns(ok)
    \/ \E a \in ReviewerAssessments \cup {Threw} : reviewReturns(a)
    \/ \E ok \in BOOLEAN : store2Returns(ok)
    \/ ping

SpecKeepAlive == Init /\ [][NextKeepAlive]_vars

\* The session together with the clock its workers read
NextClock ==
    \/ \E indexOk \in BOOLEAN : start(indexOk)
    \/ \E body \in RequestBodies : analyze(body)
    \/ \E r \in Roles, x \in ExtractedPlain \cup {Threw} : workerSettlesFew(r, x)
    \/ \E ok \in BOOLEAN : store1Returns(ok)
    \/ \E a \in ReviewerAssessments \cup {Threw} : reviewReturns(a)
    \/ \E ok \in BOOLEAN : store2Returns(ok)
    \/ tick

SpecClock == Init /\ [][NextClock]_vars

\* The session of workers whose records hold up to two concepts
NextConcepts ==
    \/ \E indexOk \in BOOLEAN : start(indexOk)
    \/ \E body \in RequestBodies : analyze(body)
    \/ \E r \in Roles, x \in ExtractedRich \cup {Threw} : workerSettlesRich(r, x)
    \/ \E ok \in BOOLEAN : store1Returns(ok)
    \/ \E a \in ReviewerAssessments \cup {Threw} : reviewReturns(a)
    \/ \E ok \in BOOLEAN : store2Returns(ok)

SpecConcepts == Init /\ [][NextConcepts]_vars

\* ---------------------------------------------------------------------------
\* getReview called directly, on any stage1 argument
\* ---------------------------------------------------------------------------

\* stage1 arguments: missing, or an array of up to MaxReviewed primary records
ReviewArgs ==
    LET recs == { [agent_mode |-> roleId[r], feedback_id |-> feedbackIdOf(r, 0),
                   concepts |-> Null] : r \in Roles }
    IN  { Null } \cup
        { Array(q) : q \in UNION { [1..n -> recs] : n \in 0..MaxReviewed } }

InitReview ==
    /\ arg = Null
    /\ ret = Null
    /\ req = Null
    /\ env = [n \in EnvNames |-> TRUE]
    /\ server = "listening"
    /\ reviewerEnabled = TRUE
    /\ pc = "getReview"
    /\ status = 0
    /\ set_id = uuidv4
    /\ line_text = <<"h", "i">>
    /\ worker = [r \in Roles |-> "idle"]
    /\ stage1Results = <<>>
    /\ stage2Results = <<>>
    /\ completedCount = 0
    /\ stage3 = Null
    /\ events = <<>>
    /\ keepAlive = FALSE
    /\ resEnded = FALSE
    /\ now = 0
    /\ agentCalls = <<>>
    /\ reviewArg \in ReviewArgs
    /\ client = Null
    /\ esLog = <<>>
    /\ reviewerLog = <<>>
    /\ bulkBody = <<>>
    /\ bulkLog = <<>>
    /\ stored = <<>>
    /\ esDocs = <<>>

\* reviewerAgent.js:226-239  getReview({set_id, line_text, stage1: reviewArg})
getReviewCalled ==
    /\ pc = "getReview"
    /\ LET g == getReview(reviewArg)
       IN  IF g.called
             THEN /\ pc' = "callReviewerAgent"
                  /\ reviewerLog' = Append(reviewerLog, "pending")
                  /\ stage3' = stage3
             ELSE /\ pc' = "returned"
                  /\ reviewerLog' = reviewerLog
                  /\ stage3' = g.result
    /\ UNCHANGED << arg, ret, req, env, server, reviewerEnabled, status, set_id, line_text,
                    worker, stage1Results, stage2Results, completedCount,
                    events, keepAlive, resEnded, now, agentCalls, reviewArg, client, esLog,
                    bulkBody, bulkLog, stored, esDocs >>

\* replies of the reviewer to a direct call: those of a session, a tool_call
\* step that carries a short label, a steps array with a null element, null
DirectReplies ==
    ReviewerReplies
    \cup { [steps |-> Array(<< [type |-> "tool_call",
                                params |-> [data |->
                                    [divergence_score |-> 40, risk_level |-> "medium",
                                     primary_conflict |-> Str(<<"N", "/", "A">>)]]]
                            >>)],
            [steps |-> Array(<< Null >>)],
            Null }

\* reviewerAgent.js:239-240  the reviewer request of a direct call returns:
\* it threw (r = Threw), or getReview parses its reply r
getReviewResumes(r) ==
    /\ pc = "callReviewerAgent"
    /\ IF r = Threw
         THEN /\ pc' = "rejected"
              /\ reviewerLog' = settle(reviewerLog, "threw")
              /\ stage3' = stage3
              /\ arg' = arg
         ELSE /\ reviewerLog' = settle(reviewerLog, "ok")
              /\ arg' = r
              /\ \E a \in { parseReviewerResponse(r) } :
                    IF a = Threw
                      THEN pc' = "rejected" /\ stage3' = stage3
                      ELSE pc' = "returned" /\ stage3' = a
    /\ UNCHANGED << ret, req, env, server, reviewerEnabled, status, set_id, line_text,
                    worker, stage1Results, stage2Results, completedCount,
                    events, keepAlive, resEnded, now, agentCalls, reviewArg, client, esLog,
                    bulkBody, bulkLog, stored, esDocs >>

NextReview ==
    \/ getReviewCalled
    \/ \E r \in DirectReplies \cup {Threw} : getReviewResumes(r)

SpecReview == InitReview /\ [][NextReview]_vars

\* ---------------------------------------------------------------------------
\* Functions called directly: the process holds no analysis session
\* ---------------------------------------------------------------------------

\* a listening server that runs no session
IdleServer ==
    /\ req = Null
    /\ env = [n \in EnvNames |-> TRUE]
    /\ server = "listening"
    /\ reviewerEnabled = TRUE
    /\ status = 0
    /\ set_id = Null
    /\ line_text = <<>>
    /\ worker = [r \in Roles |-> "idle"]
    /\ stage1Results = <<>>
    /\ stage2Results = <<>>
    /\ completedCount = 0
    /\ stage3 = Null
    /\ events = <<>>
    /\ keepAlive = FALSE
    /\ resEnded = FALSE
    /\ now = 0
    /\ agentCalls = <<>>
    /\ reviewArg = Null
    /\ client = Null
    /\ esLog = <<>>
    /\ reviewerLog = <<>>
    /\ bulkBody = <<>>
    /\ bulkLog = <<>>
    /\ stored = <<>>

\* the state of a listening server that has no session, on an empty index
NoSession == IdleServer /\ esDocs = <<>>

\* everything but the call in progress
outsideCall ==
    << req, env, server, reviewerEnabled, status, set_id, line_text, worker,
       stage1Results, stage2Results, completedCount, stage3, events, keepAlive,
       resEnded, now, agentCalls, reviewArg, client, esLog, reviewerLog, bulkBody, bulkLog,
       stored, esDocs >>

\* everything but the call in progress, the status of its response and the
\* log of its search requests
outsideSearch ==
    << req, env, server, reviewerEnabled, set_id, line_text, worker,
       stage1Results, stage2Results, completedCount, stage3, events, keepAlive,
       resEnded, now, agentCalls, reviewArg, client, reviewerLog, bulkBody, bulkLog,
       stored, esDocs >>

\* everything but the call in progress, the status of its response, the log
\* of its requests and the index
outsideIndex ==
    << req, env, server, reviewerEnabled, set_id, line_text, worker,
       stage1Results, stage2Results, completedCount, stage3, events, keepAlive,
       resEnded, now, agentCalls, reviewArg, client, reviewerLog, bulkBody, bulkLog,
       stored >>

\* ---------------------------------------------------------------------------
\* normalizeConflict called directly, on any label
\* ---------------------------------------------------------------------------

RECURSIVE Flatten(_)
\* the concatenation of a sequence of strings
Flatten(q) == IF q = <<>> THEN <<>> ELSE Head(q) \o Flatten(Tail(q))

\* labels are made of operands, separators with and without their blanks,
\* periods and blanks
LabelPieces ==
    { <<"x">>, <<"y">>, <<"A">>, vs, <<" ", "v", "s">>, <<".">>, <<" ">> }

Labels ==
    { Flatten(q) : q \in UNION { [1..n -> LabelPieces] : n \in 0..MaxPieces } }

\* the two parties of a conflict, and the ways the reviewer writes "vs"
Operands ==
    { <<"L","i","t","e","r","a","l">>, <<"T","h","e"," ","F","a","n">>,
      <<"t","h","e"," ","f","a","n">>, <<"I","n","f","e","r","r","e","d">>,
      <<"x">>, <<"A"," ">> }

Separators ==
    { vs, <<" ", "v", "s", ".", " ">>, <<" ", "V", "S", " ">>,
      <<" ", "V", "s", ".", " ">> }

\* arguments: a label x; for a pair, y is x with its operands exchanged
ConflictArgs ==
    { [x |-> Str(l), y |-> Str(l), pair |-> FALSE] : l \in Labels }
    \cup { [x |-> Str(a \o s1 \o b), y |-> Str(b \o s2 \o a), pair |-> TRUE] :
              a \in Operands, b \in Operands, s1 \in Separators, s2 \in Separators }
    \cup { [x |-> Null, y |-> Null, pair |-> FALSE] }

InitConflict ==
    /\ NoSession
    /\ pc = "normalizeConflict"
    /\ arg \in ConflictArgs
    /\ ret = Null

\* reviewerAgent.js:119-133  normalizeConflict(arg.x), normalizeConflict(arg.y)
conflictNormalized ==
    /\ pc = "normalizeConflict"
    /\ ret' = [x |-> normalizeConflict(arg.x), y |-> normalizeConflict(arg.y),
               pair |-> arg.pair]
    /\ pc' = "normalized"
    /\ UNCHANGED arg
    /\ UNCHANGED outsideCall

\* normalizeConflict applied to what it returned
conflictNormalizedAgain ==
    /\ pc = "normalized"
    /\ arg' = ret
    /\ ret' = [x |-> normalizeConflict(ret.x), y |-> normalizeConflict(ret.y),
               pair |-> ret.pair]
    /\ pc' = "renormalized"
    /\ UNCHANGED outsideCall

NextConflict == conflictNormalized \/ conflictNormalizedAgain

SpecConflict == InitConflict /\ [][NextConflict]_vars

\* ---------------------------------------------------------------------------
\* The extraction chain of a worker applied directly, to any agent response
\* ---------------------------------------------------------------------------

\* the record that location k of a response holds
Rec(k) == [feedback_text |-> Str(<<k>>)]

\* an object that parses and has neither feedback_text nor relatability
NoShape == [agent_mode |-> "other"]

\* what a known field may hold: nothing; the record as bare JSON, in a
\* fence, in prose; JSON that is not a record; prose; the record as an object
FieldValues(k) ==
    { Null,
      Text(<< Doc(Rec(k)) >>),
      Text(<< FenceJson, Space, Doc(Rec(k)), Space, Fence >>),
      Text(<< Prose, Space, Doc(Rec(k)), Space, Prose >>),
      Text(<< Doc(NoShape) >>),
      Text(<< Prose >>),
      Rec(k) }

\* what the message field may hold
MessageValues(k) ==
    { Null,
      Text(<< FenceJson, Space, Doc(Rec(k)), Space, Fence >>),
      Text(<< Prose, Space, Doc(Rec(k)), Space, Prose >>),
      Text(<< Doc(NoShape) >>) }

\* what a field of the nested response object may hold
NestedValues(k) ==
    { Null, Text(<< Doc(Rec(k)) >>), Text(<< Open, Prose >>) }

\* the nested response object
Responses ==
    { Null }
    \cup { [message |-> m, output |-> o] :
              m \in NestedValues("3"), o \in NestedValues("4") }

\* elements of a steps array
StepValues ==
    { [type |-> "message_creation", content |-> Text(<< Doc(Rec("5")) >>)],
      [type |-> "message_creation", content |-> Text(<< Prose >>)],
      [type |-> "tool_call", params |-> [data |-> Rec("5")]],
      Null }

StepsValues ==
    { Null }
    \cup { Array(q) : q \in UNION { [1..n -> StepValues] : n \in 0..MaxSteps } }

\* agent responses that are objects, with or without fields of their own
ObjectResponses ==
    { [output |-> o, message |-> m, response |-> r, steps |-> st,
       feedback_text |-> f] :
         o \in FieldValues("1"), m \in MessageValues("2"), r \in Responses,
         st \in StepsValues, f \in {Null, Str(<<"6">>)} }

\* agent responses that are not objects
OtherResponses ==
    { Null, Num(5), Text(<< Doc(Rec("6")) >>),
      Text(<< FenceJson, Space, Doc(Rec("6")), Space, Fence >>),
      Text(<< Prose >>), Array(<< Rec("6") >>) }

\* the payload shapes that the extraction is documented to handle, each
\* with the record it is expected to yield
ShapeCases ==
    { [shape |-> "object with the fields directly in it",
       payload |-> [feedback_text |-> Str(<<"6">>), relatability |-> Str(<<"H">>)],
       expected |-> [feedback_text |-> Str(<<"6">>), relatability |-> Str(<<"H">>)]],
      [shape |-> "object with the record in a known field",
       payload |-> [output |-> Rec("1")], expected |-> Rec("1")],
      [shape |-> "string holding fenced JSON",
       payload |-> Text(<< FenceJson, Space, Doc(Rec("6")), Space, Fence >>),
       expected |-> Rec("6")],
      [shape |-> "string holding bare JSON",
       payload |-> Text(<< Doc(Rec("6")) >>), expected |-> Rec("6")],
      [shape |-> "known field holding fenced JSON",
       payload |-> [message |-> Text(<< FenceJson, Space, Doc(Rec("2")), Space, Fence >>)],
       expected |-> Rec("2")],
      [shape |-> "known field holding bare JSON",
       payload |-> [response |-> [message |-> Text(<< Doc(Rec("3")) >>)]],
       expected |-> Rec("3")],
      [shape |-> "tool invocation step",
       payload |-> [steps |-> Array(<< [type |-> "tool_call",
                                        params |-> [data |-> Rec("5")]] >>)],
       expected |-> Rec("5")],
      [shape |-> "message creation step",
       payload |-> [steps |-> Array(<< [type |-> "reasoning"],
                                       [type |-> "message_creation",
                                        content |-> Text(<< Doc(Rec("5")) >>)] >>)],
       expected |-> Rec("5")],
      [shape |-> "unparseable",
       payload |-> [output |-> Text(<< Prose, Open, Prose >>)], expected |-> Null] }

\* a record with the member k, unless v is missing
Member(k, v) == IF v = Null THEN << >> ELSE k :> v

\* objects the agent may return as its record: any of the reaction and the
\* three ratings, beside members that are neither
Candidates ==
    { Member("feedback_text", f) @@ Member("relatability", r)
        @@ Member("laugh_potential", l) @@ Member("crowd_energy", c)
        @@ [agent_mode |-> "other"] :
          f \in {Null, Str(<<"o", "k">>)}, r \in {Null, Str(<<"H">>)},
          l \in {Null, Str(<<"H">>)}, c \in {Null, Str(<<"H">>)} }

\* responses that hold the candidate rec and nothing else: in output, in the
\* content of a message_creation step, or as the response itself
Placements(rec) ==
    { [output |-> Text(<< Doc(rec) >>)],
      [steps |-> Array(<< [type |-> "message_creation",
                           content |-> Text(<< FenceJson, Space, Doc(rec),
                                               Space, Fence >>)] >>)],
      rec }

CandidateCases ==
    UNION { { [shape |-> "candidate", payload |-> p, expected |-> rec] :
                p \in Placements(rec) } : rec \in Candidates }

ExtractArgs ==
    ShapeCases
    \cup CandidateCases
    \cup { [shape |-> "any", payload |-> a, expected |-> Null] :
              a \in ObjectResponses \cup OtherResponses }

InitExtract ==
    /\ NoSession
    /\ pc = "extract"
    /\ arg \in ExtractArgs
    /\ ret = Null

\* index.js:133-184  the chain runs on agentResponse = arg.payload
extracted ==
    /\ pc = "extract"
    /\ ret' = extract(arg.payload)
    /\ pc' = "extracted"
    /\ UNCHANGED arg
    /\ UNCHANGED outsideCall

NextExtract == extracted

SpecExtract == InitExtract /\ [][NextExtract]_vars

\* ---------------------------------------------------------------------------
\* parseReviewerResponse called directly, on any reply of the reviewer
\* ---------------------------------------------------------------------------

\* an assessment as the reviewer states it
Stated ==
    [divergence_score |-> 72, risk_level |-> "high",
     primary_conflict |-> Str(<<"y", " ", "V", "s", ".", " ", "x">>)]

\* an assessment without a label and with the risk level left open
Partial == [divergence_score |-> 35, risk_level |-> "unknown"]

\* what output may hold: nothing; prose; an assessment as bare JSON, in a
\* fence, in prose; JSON null
OutputValues ==
    { Null,
      Text(<< Prose >>),
      Text(<< Doc(Stated) >>),
      Text(<< FenceJson, Space, Doc(Stated), Space, Fence >>),
      Text(<< Prose, Space, Doc(Partial), Space, Prose >>),
      Text(<< Doc(Null) >>) }

\* what message may hold
ReviewMessageValues == { Null, Text(<< Prose, Open >>), Stated }

\* the nested response object
ReviewResponses ==
    { Null, << >>, [message |-> Text(<< Prose >>)],
      [message |-> Text(<< Doc(Partial) >>)] }

\* elements of a steps array
ReviewStepValues ==
    { [type |-> "tool_call", params |-> [data |-> Stated]],
      [type |-> "tool_call", params |-> [data |-> Partial]],
      [type |-> "tool_call", params |-> [query |-> "q"]],
      [type |-> "reasoning"],
      Null }

ReviewStepsValues ==
    { Null }
    \cup { Array(q) : q \in UNION { [1..n -> ReviewStepValues] : n \in 0..MaxSteps } }

\* replies of the reviewer: an object with any of its members, a string, null
ReviewerResponses ==
    { Member("conversation_id", c) @@ Member("output", o) @@ Member("message", m)
        @@ Member("response", r) @@ Member("steps", st) :
          c \in {Null, Str(<<"c", "1">>)}, o \in OutputValues, m \in ReviewMessageValues,
          r \in ReviewResponses, st \in ReviewStepsValues }
    \cup { Null, Num(5), Text(<< Prose >>), Text(<< Doc(Stated) >>) }

InitParse ==
    /\ NoSession
    /\ pc = "parseReviewerResponse"
    /\ arg \in ReviewerResponses
    /\ ret = Null

\* reviewerAgent.js:140-215  parseReviewerResponse(arg)
reviewerParsed ==
    /\ pc = "parseReviewerResponse"
    /\ ret' = parseReviewerResponse(arg)
    /\ pc' = "parsed"
    /\ UNCHANGED arg
    /\ UNCHANGED outsideCall

NextParse == reviewerParsed

SpecParse == InitParse /\ [][NextParse]_vars

\* ---------------------------------------------------------------------------
\* /api/history paged over an index that holds a history of analyses
\* ---------------------------------------------------------------------------

\* agentBuilder.js:603  the buckets one composite aggregation response holds
CompositeSize == 1000

\* index.js:320  the page size of a request that names none
DefaultLimit == 20

\* the larger of two numbers
Max(a, b) == IF a >= b THEN a ELSE b

\* the smaller of two numbers
Min(a, b) == IF a <= b THEN a ELSE b

\* the set ids of the index are numbered in the order of their keys; the
\* documents of one analysis: its stage 1 document, and a later one if the
\* analysis was stored a second time (agentBuilder.js:445-487)
docsOf(k, times) ==
    [i \in 1..Len(times) |->
        [set_id |-> k, line_id |-> line_id, stage |-> IF i = 1 THEN 1 ELSE 3,
         line_text |-> Str(<<"j">>), created_at |-> times[i]]]

\* creation times of the documents of one analysis: the second store is
\* not earlier than the first
Stores ==
    { << t >> : t \in 0..MaxClock }
    \cup { s \in (0..MaxClock) \X (0..MaxClock) : s[1] <= s[2] }

RECURSIVE indexOf(_, _)
\* the index that holds the analyses h[k..], analysis k made of the documents h[k]
indexOf(h, k) ==
    IF k > Len(h) THEN <<>> ELSE docsOf(k, h[k]) \o indexOf(h, k + 1)

\* every history of up to MaxHistory analyses
Histories ==
    { indexOf(h, 1) : h \in UNION { [1..n -> Stores] : n \in 0..MaxHistory } }

\* a history that has one analysis more than a composite response holds
LongHistory ==
    [k \in 1..(CompositeSize + 1) |-> docsOf(k, << k % (MaxClock + 1) >>)[1]]

\* agentBuilder.js:601-606  the unique_sets buckets of one response: the set
\* ids in key order, CompositeSize of them at most
uniqueSets(docs) ==
    LET keys    == { docs[i].set_id : i \in DOMAIN docs }
        top     == IF keys = {} THEN 0 ELSE CHOOSE k \in keys : \A j \in keys : j <= k
        ordered == SelectSeq([k \in 1..top |-> k], LAMBDA k : k \in keys)
    IN  SubSeq(ordered, 1, Min(Len(ordered), CompositeSize))

\* agentBuilder.js:608-614  top_hits of one bucket: line_text and created_at
\* of the most recent document of the analysis
sample(docs, k) ==
    LET own == { i \in DOMAIN docs : docs[i].set_id = k }
        hit == docs[CHOOSE i \in own : \A j \in own : docs[j].created_at <= docs[i].created_at]
    IN  [set_id |-> k, line_text |-> hit.line_text, created_at |-> hit.created_at]

RECURSIVE sortByRecency(_, _)
\* agentBuilder.js:636  allItems.sort((a, b) => new Date(b.created_at) -
\* new Date(a.created_at)): a stable sort, the items of the times left taken
\* latest time first, items of one time in the order they had
sortByRecency(items, times) ==
    IF times = {} THEN <<>>
    ELSE LET latest == CHOOSE t \in times : \A u \in times : u <= t
         IN  SelectSeq(items, LAMBDA item : item.created_at = latest)
             \o sortByRecency(items, times \ {latest})

\* Array.prototype.slice(from, to) on non-negative bounds
slice(items, from, to) == SubSeq(items, from + 1, Min(to, Len(items)))

\* agentBuilder.js:595-644  fetchHistory(limit, offset) on the index docs
fetchHistory(docs, limit, offset) ==
    CHOOSE r \in
      { [items |-> slice(allItems, offset, offset + limit), total |-> Len(allItems)] :
          allItems \in
            { sortByRecency(items, { items[i].created_at : i \in DOMAIN items }) :
                items \in { [p \in DOMAIN buckets |-> sample(docs, buckets[p])] :
                              buckets \in { uniqueSets(docs) } } } } : TRUE

\* index.js:320  parseInt(req.query.limit) || 20, on a limit that is absent
\* or a natural number
limitOf(q) == IF q = Null THEN DefaultLimit ELSE IF q.num = 0 THEN DefaultLimit ELSE q.num

\* page sizes a client asks for
Limits == { Null } \cup { Num(n) : n \in {0, 1, 2, CompositeSize} }

\* index.js:318-340  GET /api/history?limit=&offset= : the response handed to
\* res.json, ok being whether the search request succeeded
history(docs, limit, offset, ok) ==
    IF ~ok
      THEN [status |-> 500, error |-> "Failed to fetch history"]
      ELSE CHOOSE r \in
             { [status |-> 200, items |-> h.items, total |-> h.total,
                limit |-> limit, offset |-> offset,
                hasMore |-> offset + Len(h.items) < h.total] :
                 h \in { fetchHistory(docs, limit, offset) } } : TRUE

InitHistory ==
    /\ IdleServer
    /\ pc = "history"
    /\ \/ /\ esDocs \in Histories
          /\ arg \in { [limit |-> limitOf(q), offset |-> 0] : q \in Limits }
       \/ /\ esDocs = LongHistory
          /\ arg \in { [limit |-> limitOf(q), offset |-> 0] : q \in {Null, Num(CompositeSize)} }
    /\ ret = <<>>

\* HistoryList.jsx:21, 175 and index.js:318-340  the client requests the page
\* at arg.offset and receives it; while hasMore it asks for the next page.
\* ret lists the responses received.
getHistory(ok) ==
    /\ pc = "history"
    /\ \E r \in { history(esDocs, arg.limit, arg.offset, ok) } :
          /\ ret' = Append(ret, r)
          /\ status' = r.status
          /\ esLog' = Append(esLog, [search |-> "history", must_not |-> {},
                                     outcome |-> IF ok THEN "ok" ELSE "threw"])
          /\ IF r.status # 200 THEN pc' = "failed" /\ arg' = arg
             ELSE IF r.hasMore
               THEN pc' = pc /\ arg' = [arg EXCEPT !.offset = @ + arg.limit]
               ELSE pc' = "paged" /\ arg' = arg
    /\ UNCHANGED outsideSearch

NextHistory == \E ok \in BOOLEAN : getHistory(ok)

SpecHistory == InitHistory /\ [][NextHistory]_vars

\* ---------------------------------------------------------------------------
\* /api/similar: the semantic search and its more_like_this fallback
\* ---------------------------------------------------------------------------

\* index.js:393  the number of similar jokes asked for when none is named
DefaultSimilar == 5

\* index.js:393  the most similar jokes one request may ask for
SimilarCap == 10

\* the lines the indexed analyses are about, and the requests ask for
Lines == { Str(<<"a">>), Str(<<"b">>) }

\* agentBuilder.js:437-455  the stage 1 documents of analysis k on the line
\* text: n of them, and its stage 3 document (agentBuilder.js:475-487)
similarDocs(k, text, n) ==
    [i \in 1..n |->
        [set_id |-> k, line_id |-> line_id, stage |-> 1, line_text |-> text,
         crowd_energy |-> Str(<<"H">>), created_at |-> 0]]
    \o << [set_id |-> k, line_id |-> line_id, stage |-> 3, line_text |-> text,
           divergence_score |-> 0, risk_level |-> "low", created_at |-> 0] >>

RECURSIVE similarIndex(_, _)
\* the index of the analyses h[k..]
similarIndex(h, k) ==
    IF k > Len(h) THEN <<>>
    ELSE similarDocs(k, h[k].line_text, h[k].count) \o similarIndex(h, k + 1)

\* every index of up to MaxIndexed analyses of one or two stage 1 documents
Indexes ==
    { similarIndex(h, 1) :
        h \in UNION { [1..n -> [line_text : Lines, count : 1..2]] : n \in 0..MaxIndexed } }

\* req.query of GET /api/similar: line_text, limit and exclude_set_id, each
\* present or not
SimilarQueries ==
    [line_text : Lines \cup {Null},
     limit : {Null, Str(<<"1">>), Str(<<"5", "0">>)},
     exclude_set_id : {Null} \cup { Num(k) : k \in 1..MaxIndexed }]

\* the query without its must_not clause
mustNotDropped(excludeSetId) == {}

\* agentBuilder.js:695 and 774  must_not: excludeSetId ? [{term: {set_id:
\* excludeSetId}}] : [], as the set of set ids it excludes
mustNot(excludeSetId) == IF truthy(excludeSetId) THEN { excludeSetId.num } ELSE {}

\* the decimal digits, each at the position after its value
Digits == << "0", "1", "2", "3", "4", "5", "6", "7", "8", "9" >>

\* the value of a decimal digit
digit(c) == (CHOOSE i \in DOMAIN Digits : Digits[i] = c) - 1

RECURSIVE leadingDigits(_)
\* the digits a string begins with
leadingDigits(cs) ==
    IF cs # <<>> /\ \E i \in DOMAIN Digits : Digits[i] = Head(cs)
      THEN << Head(cs) >> \o leadingDigits(Tail(cs))
      ELSE <<>>

RECURSIVE decimal(_, _)
\* the number that the digits ds write, after the digits that wrote n
decimal(ds, n) ==
    IF ds = <<>> THEN n ELSE decimal(Tail(ds), 10 * n + digit(Head(ds)))

\* the number that is not one
NaN == [nan |-> TRUE]

\* parseInt(v) where v is undefined or a string that holds no 'x': white
\* space is skipped, a sign is read, then the digits up to the first
\* character that is none; no digit there gives NaN
parseInt(v) ==
    IF ~isStr(v) THEN NaN
    ELSE LET cs     == trimStart(v.chars)
             signed == cs # <<>> /\ Head(cs) \in {"-", "+"}
             ds     == leadingDigits(IF signed THEN Tail(cs) ELSE cs)
         IN  IF ds = <<>> THEN NaN
             ELSE IF Head(cs) = "-" THEN Num(0 - decimal(ds, 0))
             ELSE Num(decimal(ds, 0))

\* index.js:393  Math.min(parseInt(limit) || 5, 10)
maxLimit(limit) ==
    Min(IF parseInt(limit) = NaN \/ parseInt(limit) = Num(0)
          THEN DefaultSimilar ELSE parseInt(limit).num,
        SimilarCap)

\* the documents a search on line_text may match: the stage 1 documents
\* (must: term stage 1) of no excluded analysis (must_not); those about the
\* very line match, of the others any may
Hits(docs, text, excluded) ==
    LET eligible == { i \in DOMAIN docs :
                        docs[i].stage = 1 /\ docs[i].set_id \notin excluded }
        same     == { i \in eligible : docs[i].line_text = text }
    IN  { same \cup others : others \in SUBSET (eligible \ same) }

\* the ways a search request ends without aggregations: the request throws
\* (esRequest, agentBuilder.js:373-394), the index is missing (404), the
\* response body has no aggregations member, the response has no body
SearchFailures == { "threw", "status_404", "no_aggregations", "empty_body" }

\* replies of Elasticsearch to a search built with the must_not set excluded
SearchReplies(docs, text, excluded) ==
    { [kind |-> f] : f \in SearchFailures }
    \cup { [kind |-> "ok", hits |-> h] : h \in Hits(docs, text, excluded) }

\* agentBuilder.js:698-703  the unique_jokes buckets of the hits: one per
\* set_id, largest doc_count first, `limit` of them at most
uniqueJokes(docs, hits, limit) ==
    LET keys     == { docs[i].set_id : i \in hits }
        count(k) == Cardinality({ i \in hits : docs[i].set_id = k })
        ahead(k) == Cardinality({ j \in keys : count(j) > count(k)
                                               \/ (count(j) = count(k) /\ j < k) })
        all      == [p \in 1..Cardinality(keys) |-> CHOOSE k \in keys : ahead(k) = p - 1]
    IN  SubSeq(all, 1, Min(Len(all), limit))

\* agentBuilder.js:728-740  the results of the semantic search; a stage 1
\* document has no divergence_score and no risk_level, so those members are
\* undefined and res.json leaves them out. The score of a bucket is the best
\* _score of its hits: 2 for the very line, 1 otherwise.
semanticResults(docs, hits, text, limit) ==
    LET buckets == uniqueJokes(docs, hits, limit)
    IN  [p \in DOMAIN buckets |->
            LET own == { i \in hits : docs[i].set_id = buckets[p] }
                hit == docs[CHOOSE i \in own : TRUE]
            IN  [set_id |-> buckets[p], line_text |-> hit.line_text,
                 score |-> IF hit.line_text = text THEN 2 ELSE 1,
                 crowd_energy |-> hit.crowd_energy, created_at |-> hit.created_at]
                @@ Member("divergence_score", Get(hit, "divergence_score"))
                @@ Member("risk_level", Get(hit, "risk_level"))]

\* the results of the more_like_this search, each marked as such
fallbackResultsMarked(docs, hits, limit) ==
    LET buckets == uniqueJokes(docs, hits, limit)
    IN  [p \in DOMAIN buckets |->
            [set_id |-> buckets[p], line_text |-> Str(<<"a">>), score |-> 1,
             crowd_energy |-> Str(<<"H">>), created_at |-> 0, fallback |-> TRUE]]

\* agentBuilder.js:797-807  the results of the more_like_this search
fallbackResults(docs, hits, limit) ==
    LET buckets == uniqueJokes(docs, hits, limit)
    IN  [p \in DOMAIN buckets |->
            LET own == { i \in hits : docs[i].set_id = buckets[p] }
                hit == docs[CHOOSE i \in own : TRUE]
            IN  [set_id |-> buckets[p], line_text |-> hit.line_text,
                 score |-> Cardinality(own),
                 crowd_energy |-> hit.crowd_energy, created_at |-> hit.created_at]]

\* index.js:396-399  res.json({similar, count})
similarBody(similar) == [similar |-> similar, count |-> Len(similar)]

\* a search request issued by findSimilarJokes, in flight
search(kind, excludeSetId) ==
    [search |-> kind, must_not |-> mustNot(excludeSetId), outcome |-> "pending"]

\* the outcome of the search in flight, entered in the log
returned(log, outcome) == [log EXCEPT ![Len(log)].outcome = outcome]

InitSimilar ==
    /\ IdleServer
    /\ esDocs \in Indexes
    /\ pc = "similar"
    /\ arg \in SimilarQueries
    /\ ret = Null

\* index.js:382-394 and agentBuilder.js:676-721  the request arrives: without
\* line_text it is answered 400, otherwise findSimilarJokes issues the
\* semantic search
similarRequested ==
    /\ pc = "similar"
    /\ IF ~truthy(arg.line_text)
         THEN /\ pc' = "responded"
              /\ status' = 400
              /\ ret' = [error |-> "Missing required parameter"]
              /\ esLog' = esLog
         ELSE /\ pc' = "semantic"
              /\ status' = status
              /\ ret' = ret
              /\ esLog' = Append(esLog, search("semantic", arg.exclude_set_id))
    /\ UNCHANGED arg
    /\ UNCHANGED outsideSearch

\* agentBuilder.js:721-749  the semantic search returns reply r: its results
\* are the answer, or the fallback search is issued, from the try block
\* (status_404, no_aggregations) or from the catch block (threw, empty_body:
\* reading data.aggregations of null throws)
semanticReturns(r) ==
    /\ pc = "semantic"
    /\ IF r.kind = "ok"
         THEN /\ pc' = "responded"
              /\ status' = 200
              /\ ret' = similarBody(semanticResults(esDocs, r.hits, arg.line_text,
                                                    maxLimit(arg.limit)))
              /\ esLog' = returned(esLog, r.kind)
         ELSE /\ pc' = IF r.kind \in {"threw", "empty_body"}
                         THEN "more_like_this_caught" ELSE "more_like_this"
              /\ status' = status
              /\ ret' = ret
              /\ esLog' = Append(returned(esLog, r.kind),
                                 search("more_like_this", arg.exclude_set_id))
    /\ UNCHANGED arg
    /\ UNCHANGED outsideSearch

\* agentBuilder.js:794-809 and index.js:396-406  the fallback search returns
\* reply r. Without aggregations its results are empty; when it throws (threw,
\* or empty_body: reading data.aggregations of null), the catch block of
\* findSimilarJokes issues it once more if it was called in the try block,
\* and the route answers 500 otherwise.
fallbackReturns(r) ==
    /\ pc \in {"more_like_this", "more_like_this_caught"}
    /\ IF r.kind \in {"threw", "empty_body"}
         THEN IF pc = "more_like_this"
                THEN /\ pc' = "more_like_this_caught"
                     /\ status' = status
                     /\ ret' = ret
                     /\ esLog' = Append(returned(esLog, r.kind),
                                        search("more_like_this", arg.exclude_set_id))
                ELSE /\ pc' = "responded"
                     /\ status' = 500
                     /\ ret' = [error |-> "Failed to find similar jokes"]
                     /\ esLog' = returned(esLog, r.kind)
         ELSE /\ pc' = "responded"
              /\ status' = 200
              /\ ret' = similarBody(IF r.kind = "ok"
                                      THEN fallbackResults(esDocs, r.hits,
                                                           maxLimit(arg.limit))
                                      ELSE <<>>)
              /\ esLog' = returned(esLog, r.kind)
    /\ UNCHANGED arg
    /\ UNCHANGED outsideSearch

\* replies Elasticsearch may give to the search in flight
PendingReplies ==
    IF esLog = <<>> \/ pc = "responded" THEN {}
    ELSE SearchReplies(esDocs, arg.line_text, esLog[Len(esLog)].must_not)

NextSimilar ==
    \/ similarRequested
    \/ \E r \in PendingReplies : semanticReturns(r)
    \/ \E r \in PendingReplies : fallbackReturns(r)

SpecSimilar == InitSimilar /\ [][NextSimilar]_vars

\* ---------------------------------------------------------------------------
\* getAllInsights: six sub-aggregates computed by ES|QL queries
\* ---------------------------------------------------------------------------

\* analytics.js getAllInsights: the members of its result, in the order of
\* the computations handed to Promise.all (agentBuilder.js:278-283), summary
\* being the result of getOverallStats
SubAggregates ==
    << "riskDistribution", "energyDistribution", "divergenceTrend",
       "topConflicts", "successfulModes", "summary" >>

\* agentBuilder.js:278-283  what the catch handler of a sub-aggregate gives
defaultOf(name) ==
    IF name = "summary"
      THEN [total_jokes |-> 0, avg_divergence |-> 0]
      ELSE Array(<<>>)

\* agentBuilder.js:108-120  rows of an ES|QL response, as transformEsqlResponse
\* returns them: none, or one row that counts `count`
EsqlRows == { Array(<<>>), Array(<< [count |-> 2] >>) }

\* what an ES|QL query comes to: esqlQuery throws, or the rows of its response
EsqlReplies == { Threw } \cup EsqlRows

\* an ES|QL query issued for a sub-aggregate, in flight
esql(name) == [search |-> name, outcome |-> "pending", rows |-> Null]

\* the query in flight has come to reply r
answered(entry, r) ==
    [entry EXCEPT !.outcome = IF r = Threw THEN "threw" ELSE "ok",
                  !.rows = IF r = Threw THEN Null ELSE r]

\* the queries issued for the sub-aggregate name
queriesOf(log, name) == SelectSeq(log, LAMBDA e : e.search = name)

\* a promise that has neither resolved nor rejected
Unsettled == [unsettled |-> TRUE]

\* agentBuilder.js:124-262  the promise of a sub-aggregate: Unsettled while a
\* query of it is in flight or to come, Threw when a query of it threw, and
\* otherwise the value it computes from the rows. getOverallStats makes two
\* queries, one after the other; getRiskDistribution adds a percentage.
computed(log, name) ==
    LET q == queriesOf(log, name)
    IN  IF \E i \in DOMAIN q : q[i].outcome = "threw" THEN Threw
        ELSE IF \E i \in DOMAIN q : q[i].outcome = "pending" THEN Unsettled
        ELSE IF name = "summary"
          THEN IF Len(q) < 2 THEN Unsettled
               ELSE [total_jokes    |-> IF q[1].rows.array = <<>> THEN 0
                                        ELSE q[1].rows.array[1].count,
                     avg_divergence |-> IF q[2].rows.array = <<>> THEN 0
                                        ELSE q[2].rows.array[1].count]
        ELSE IF name = "riskDistribution"
          THEN Array([i \in DOMAIN q[1].rows.array |->
                        [count |-> q[1].rows.array[i].count, percentage |-> 100]])
        ELSE q[1].rows

\* a sub-aggregate whose rejection is handed on
rethrown(name, value) == value

\* agentBuilder.js:278-283  .catch(() => default) on the promise of a sub-aggregate
caught(name, value) == IF value = Threw THEN defaultOf(name) ELSE value

\* the six promises handed to Promise.all
promises(log) ==
    [i \in DOMAIN SubAggregates |->
        caught(SubAggregates[i], computed(log, SubAggregates[i]))]

InitInsights ==
    /\ IdleServer
    /\ esDocs = <<>>
    /\ pc = "insights"
    /\ arg = Null
    /\ ret = Null

\* agentBuilder.js:266-284  getAllInsights is called: each of the six
\* functions runs up to its first query
insightsCalled ==
    /\ pc = "insights"
    /\ pc' = "Promise.all"
    /\ esLog' = [i \in DOMAIN SubAggregates |-> esql(SubAggregates[i])]
    /\ UNCHANGED << arg, ret, status >>
    /\ UNCHANGED outsideSearch

\* agentBuilder.js:84-103  the query esLog[i] comes to reply r; the count
\* query of getOverallStats is followed by its average query (247-255)
queryReturns(i, r) ==
    /\ pc = "Promise.all"
    /\ i \in DOMAIN esLog
    /\ esLog[i].outcome = "pending"
    /\ LET log == [esLog EXCEPT ![i] = answered(@, r)]
       IN  esLog' = IF esLog[i].search = "summary" /\ r # Threw
                         /\ Len(queriesOf(esLog, "summary")) = 1
                      THEN Append(log, esql("summary"))
                      ELSE log
    /\ UNCHANGED << pc, arg, ret, status >>
    /\ UNCHANGED outsideSearch

\* agentBuilder.js:271-297  Promise.all settles: it rejects as soon as one of
\* its promises has rejected, and getAllInsights rethrows; it resolves once
\* all six have resolved, and getAllInsights returns the six values
insightsSettle ==
    /\ pc = "Promise.all"
    /\ \E p \in { promises(esLog) } :
          IF \E i \in DOMAIN p : p[i] = Threw
            THEN pc' = "rejected" /\ ret' = Threw
            ELSE /\ \A i \in DOMAIN p : p[i] # Unsettled
                 /\ pc' = "returned"
                 /\ ret' = [summary |-> p[6], riskDistribution |-> p[1],
                            energyDistribution |-> p[2], divergenceTrend |-> p[3],
                            topConflicts |-> p[4], successfulModes |-> p[5]]
    /\ UNCHANGED << arg, status, esLog >>
    /\ UNCHANGED outsideSearch

NextInsights ==
    \/ insightsCalled
    \/ \E i \in 1..(Len(SubAggregates) + 1), r \in EsqlReplies : queryReturns(i, r)
    \/ insightsSettle

SpecInsights == InitInsights /\ [][NextInsights]_vars

\* ---------------------------------------------------------------------------
\* DELETE /api/history/:set_id followed by GET /api/results
\* ---------------------------------------------------------------------------

\* agentBuilder.js:543  the hits one fetchDocsFromES search asks for
FetchSize == 100

\* what an analysis has stored: its stage 1 documents alone (the first store,
\* no concepts), stage 1 and 2, or all three stages
StoredStages == { {1}, {1, 2}, {1, 2, 3} }

\* agentBuilder.js:437-487  the documents of analysis k that has stored the
\* stages st: stage 1 and 2 at the first store, stage 3 at the second
storedDocs(k, st) ==
    LET doc(n) == [set_id |-> k, line_id |-> line_id, stage |-> n,
                   created_at |-> IF n = 3 THEN 1 ELSE 0]
    IN  SelectSeq(<< doc(1), doc(1), doc(2), doc(3) >>, LAMBDA d : d.stage \in st)

RECURSIVE storedIndex(_, _)
\* the index of the analyses h[k..]
storedIndex(h, k) ==
    IF k > Len(h) THEN <<>> ELSE storedDocs(k, h[k]) \o storedIndex(h, k + 1)

\* every index of up to MaxIndexed analyses
StoredIndexes ==
    { storedIndex(h, 1) : h \in UNION { [1..n -> StoredStages] : n \in 0..MaxIndexed } }

\* the documents of docs that are not of the set ids gone
without(docs, gone) == SelectSeq(docs, LAMBDA d : d.set_id \notin gone)

\* a _delete_by_query that spares every document
termSparesAll(sid) == {}

\* agentBuilder.js:654-658  query: {term: {set_id}}: the set ids it matches
term(sid) == { sid }

\* agentBuilder.js:651-666  what deleteBySetId returns on the response of a
\* request that removed `deleted` documents
deleteBySetId(deleted) == [deleted |-> deleted]

RECURSIVE sortByCreation(_, _)
\* agentBuilder.js:544  sort: [{created_at: 'asc'}], hits of one time in the
\* order of the index
sortByCreation(hits, times) ==
    IF times = {} THEN <<>>
    ELSE LET first == CHOOSE t \in times : \A u \in times : t <= u
         IN  SelectSeq(hits, LAMBDA d : d.created_at = first)
             \o sortByCreation(hits, times \ {first})

\* agentBuilder.js:531-560  fetchDocsFromES({set_id, line_id}) on the index docs
fetchDocsFromES(docs, sid, lid) ==
    LET matching == SelectSeq(docs, LAMBDA d : d.set_id = sid /\ d.line_id = lid)
        sorted   == sortByCreation(matching,
                                   { matching[i].created_at : i \in DOMAIN matching })
        hits     == SubSeq(sorted, 1, Min(Len(sorted), FetchSize))
        stage3Docs == SelectSeq(hits, LAMBDA d : d.stage = 3)
    IN  [stage1 |-> SelectSeq(hits, LAMBDA d : d.stage = 1),
         stage2 |-> SelectSeq(hits, LAMBDA d : d.stage = 2),
         stage3 |-> IF Len(stage3Docs) > 0 THEN stage3Docs[1] ELSE Null]

\* index.js:289  line_id || 'l1', "" being a line_id that is absent or empty
lineOf(q) == IF q = "" THEN line_id ELSE q

InitDelete ==
    /\ IdleServer
    /\ esDocs \in StoredIndexes
    /\ pc = "idle"
    /\ arg = Null
    /\ ret = Null

\* index.js:348-359 and agentBuilder.js:651-660  DELETE /api/history/k: the
\* route calls deleteBySetId(k), which issues its _delete_by_query
deleteRequested(k) ==
    /\ pc = "idle"
    /\ esLog = <<>>
    /\ pc' = "_delete_by_query"
    /\ arg' = [set_id |-> k]
    /\ esLog' = Append(esLog, [search |-> "delete", set_id |-> k,
                               outcome |-> "pending", deleted |-> 0])
    /\ UNCHANGED << ret, status, esDocs >>
    /\ UNCHANGED outsideIndex

\* agentBuilder.js:660-665 and index.js:361-371  the _delete_by_query returns.
\* ok: the documents the term matches are gone, and the route answers with
\* their number; otherwise esRequest throws, with the documents still there
\* or gone, and the route answers 500
deleteReturns(ok, applied) ==
    /\ pc = "_delete_by_query"
    /\ \E left \in { IF applied THEN without(esDocs, term(arg.set_id)) ELSE esDocs } :
          /\ esDocs' = left
          /\ IF ok
               THEN /\ status' = 200
                    /\ ret' = deleteBySetId(Len(esDocs) - Len(left))
               ELSE /\ status' = 500
                    /\ ret' = [error |-> "Failed to delete"]
    /\ pc' = "idle"
    /\ esLog' = [returned(esLog, IF ok THEN "ok" ELSE "threw")
                    EXCEPT ![1].deleted = Len(esDocs) - Len(esDocs')]
    /\ UNCHANGED arg
    /\ UNCHANGED outsideIndex

\* index.js:278-306 and agentBuilder.js:531-560  GET /api/results for set_id
\* k and the line_id q; ok is whether the search request succeeded
getResults(k, q, ok) ==
    /\ pc = "idle"
    /\ Len(esLog) <= 1
    /\ arg' = [set_id |-> k, line_id |-> lineOf(q)]
    /\ esLog' = Append(esLog, [search |-> "results", set_id |-> k,
                               outcome |-> IF ok THEN "ok" ELSE "threw"])
    /\ IF ok
         THEN /\ status' = 200
              /\ ret' = [set_id |-> k, line_id |-> lineOf(q)]
                        @@ fetchDocsFromES(esDocs, k, lineOf(q))
         ELSE /\ status' = 500
              /\ ret' = [error |-> "Failed to fetch results"]
    /\ pc' = "fetched"
    /\ UNCHANGED esDocs
    /\ UNCHANGED outsideIndex

NextDelete ==
    \/ \E k \in 1..(MaxIndexed + 1) : deleteRequested(k)
    \/ \E ok \in BOOLEAN, applied \in BOOLEAN : (ok => applied) /\ deleteReturns(ok, applied)
    \/ \E k \in 1..(MaxIndexed + 1), q \in {"", "l1", "l2"}, ok \in BOOLEAN :
          getResults(k, q, ok)

SpecDelete == InitDelete /\ [][NextDelete]_vars

\* ---------------------------------------------------------------------------
\* The session with every reply of the store, followed by GET /api/results
\* ---------------------------------------------------------------------------

\* a concept as the agent states it
Angle ==
    [angle_name |-> 1, explanation |-> Str(<<"e">>),
     exploration_direction |-> Str(<<"d">>)]

\* what the extraction chain recovers from an agent response: nothing, a
\* record without concepts, a record with one concept
ExtractedStored ==
    { Null,
      [agent_mode |-> "other", concepts |-> Null],
      [agent_mode |-> "other", concepts |-> Array(<< Angle >>)] }

\* a reply of the reviewer that grades the risk in a word of its own
OffScale ==
    [steps |-> Array(<< [type |-> "tool_call",
                         params |-> [data |->
                             [divergence_score |-> 90, risk_level |-> "critical",
                              primary_conflict |-> Str(<<"N", "/", "A">>)]]] >>)]

\* reviewerAgent.js:240  what getReview returns for the replies of a session
\* and for that one
StoreAssessments == ReviewerAssessments \cup { parseReviewerResponse(OffScale) }

\* index.js:278-306 and agentBuilder.js:531-560  GET /api/results for the
\* set_id of the session whose handler has finished; ok is whether the
\* search request succeeded
resultsFetched(ok) ==
    /\ pc = "closed"
    /\ ret = Null
    /\ esLog' = Append(esLog, [search |-> "results", set_id |-> set_id,
                               outcome |-> IF ok THEN "ok" ELSE "threw"])
    /\ ret' = IF ok
                THEN [set_id |-> set_id, line_id |-> line_id]
                     @@ fetchDocsFromES(esDocs, set_id, line_id)
                ELSE [error |-> "Failed to fetch results"]
    /\ UNCHANGED << arg, req, env, server, reviewerEnabled, status, set_id, line_text,
                    worker, stage1Results, stage2Results, completedCount, now,
                    agentCalls, reviewArg, client >>
    /\ UNCHANGED sessionVars

NextStore ==
    \/ \E indexOk \in BOOLEAN : start(indexOk)
    \/ \E body \in RequestBodies : analyze(body)
    \/ \E r \in Roles, x \in ExtractedStored \cup {Threw} : workerSettlesFew(r, x)
    \/ \E reply \in BulkReplies(bulkBody) : store1Responds(reply)
    \/ \E a \in StoreAssessments \cup {Threw} : reviewReturns(a)
    \/ \E reply \in BulkReplies(bulkBody) : store2Responds(reply)
    \/ \E ok \in BOOLEAN : resultsFetched(ok)

SpecStore == Init /\ [][NextStore]_vars

\* ---------------------------------------------------------------------------
\* The limit of /api/similar computed directly, on any limit query value
\* ---------------------------------------------------------------------------

\* the characters a limit query value is made of
LimitChars == { "-", "0", "1", "9", "a", " " }

\* req.query.limit: absent, or a string of up to MaxLimitChars characters
LimitValues ==
    { Null }
    \cup { Str(cs) : cs \in UNION { [1..n -> LimitChars] : n \in 0..MaxLimitChars } }

InitLimit ==
    /\ NoSession
    /\ pc = "similar"
    /\ arg \in LimitValues
    /\ ret = Null

\* index.js:393  const maxLimit = Math.min(parseInt(limit) || 5, 10), the
\* number handed to findSimilarJokes at 394
limitComputed ==
    /\ pc = "similar"
    /\ ret' = Num(maxLimit(arg))
    /\ pc' = "semantic"
    /\ UNCHANGED arg
    /\ UNCHANGED outsideCall

NextLimit == limitComputed

SpecLimit == InitLimit /\ [][NextLimit]_vars

\* ---------------------------------------------------------------------------
\* The fan-out on given agent responses, one per worker
\* ---------------------------------------------------------------------------

\* the reaction that a response states under the name k
Reaction(k) ==
    [feedback_text |-> Str(<<k>>), agent_mode |-> "other", concepts |-> Null]

\* what the agent call of a worker may resolve with, each with the record
\* that is to be extracted from it (Null: none): a reaction as bare JSON in
\* output, another in a fence in message, prose
WorkerResponses ==
    { [payload |-> [output |-> Text(<< Doc(Reaction("A")) >>)],
       expected |-> Reaction("A")],
      [payload |-> [message |-> Text(<< FenceJson, Space, Doc(Reaction("B")),
                                        Space, Fence >>)],
       expected |-> Reaction("B")],
      [payload |-> [output |-> Text(<< Prose >>)], expected |-> Null] }

\* index.js:51-131  the session as analyze leaves it, the six agent calls in
\* flight; arg holds what each of them will come to
InitIsolation ==
    /\ arg \in [Roles -> WorkerResponses]
    /\ ret = Null
    /\ req = [type |-> "string", chars |-> <<"h", "i">>]
    /\ env = [n \in EnvNames |-> TRUE]
    /\ server = "listening"
    /\ reviewerEnabled = TRUE
    /\ pc = "fanout"
    /\ status = 200
    /\ set_id = uuidv4
    /\ line_text = <<"h", "i">>
    /\ worker = [r \in Roles |-> "inflight"]
    /\ stage1Results = <<>>
    /\ stage2Results = <<>>
    /\ completedCount = 0
    /\ stage3 = Null
    /\ events = opening(uuidv4)
    /\ keepAlive = TRUE
    /\ resEnded = FALSE
    /\ now = 0
    /\ agentCalls = [r \in Roles |-> conversationId(uuidv4, r)]
    /\ reviewArg = Null
    /\ client = Null
    /\ esLog = <<>>
    /\ reviewerLog = <<>>
    /\ bulkBody = <<>>
    /\ bulkLog = <<>>
    /\ stored = <<>>
    /\ esDocs = <<>>

\* index.js:128-219  the agent call of worker r resolves with its response
\* and the worker runs its extraction chain on it
workerResolves(r) == workerSettlesFew(r, extract(arg[r].payload))

NextIsolation ==
    \/ \E r \in Roles : workerResolves(r)
    \/ \E ok \in BOOLEAN : store1Returns(ok)
    \/ \E a \in ReviewerAssessments \cup {Threw} : reviewReturns(a)
    \/ \E ok \in BOOLEAN : store2Returns(ok)

SpecIsolation == InitIsolation /\ [][NextIsolation]_vars

\* ---------------------------------------------------------------------------
\* The browser: handleGenerate of App reading the event stream of one request
\* ---------------------------------------------------------------------------

\* The response body is held as a sequence of lexemes: the words "event:" and
\* "data:", a space, the name of an event, a line feed, and the serialization
\* of the payload in two pieces, so that a network chunk may end between the
\* colon and the space, inside the JSON text and between the two line feeds.
LineFeed == Tok("\n")
EventField == Tok("event:")
DataField == Tok("data:")

\* piece i (1 or 2) of the text JSON.stringify(v)
Piece(v, i) == [piece |-> i, of |-> v]

\* index.js:69  JSON.stringify(data), as the pieces of its text
stringified(v) == << Piece(v, 1), Piece(v, 2) >>

\* index.js:69  the text of one res.write of sendEvent:
\*              `event: ${type}\ndata: ${JSON.stringify(data)}\n\n`
written(e) ==
    << EventField, Space, Tok(e.type), LineFeed, DataField, Space >>
    \o stringified(e.data) \o << LineFeed, LineFeed >>

RECURSIVE body(_)
\* the response body: the writes of the events of the session, in order
body(es) == IF es = <<>> THEN <<>> ELSE written(Head(es)) \o body(Tail(es))

\* the first position of s at or after i that holds a line feed, or
\* Len(s) + 1 where there is none
lineEnd(s, i) ==
    LET N == { j \in i..Len(s) : s[j] = LineFeed }
    IN  IF N = {} THEN Len(s) + 1 ELSE CHOOSE j \in N : \A k \in N : j <= k

RECURSIVE splitBlank(_)
\* part_001:76  buffer.split('\n\n'): the parts between the blank-line
\*              separators, found from left to right
splitBlank(s) ==
    LET B == { i \in 1..(Len(s) - 1) : s[i] = LineFeed /\ s[i + 1] = LineFeed }
        first == CHOOSE i \in B : \A j \in B : i <= j
    IN  IF B = {} THEN << s >>
        ELSE << SubSeq(s, 1, first - 1) >> \o splitBlank(SubSeq(s, first + 2, Len(s)))

\* part_001:79  lines.pop(): the part after the last separator stays in the
\*              buffer
pop(lines) == lines[Len(lines)]

\* part_001:81  the parts that lines.pop() leaves in lines
complete(lines) == SubSeq(lines, 1, Len(lines) - 1)

\* part_001:82  group.match(/event: (.*)\n/): the first place of group where
\*              "event: " is followed by a line feed on the same line; the
\*              capture is what stands between them
eventMatch(group) ==
    LET M == { i \in 1..(Len(group) - 1) :
                 /\ group[i] = EventField
                 /\ group[i + 1] = Space
                 /\ lineEnd(group, i + 2) <= Len(group) }
        first == CHOOSE i \in M : \A j \in M : i <= j
    IN  IF M = {} THEN Null
        ELSE Text(SubSeq(group, first + 2, lineEnd(group, first + 2) - 1))

\* part_001:83  group.match(/data: (.*)/): the first "data: " of group; the
\*              capture runs to the end of its line
dataMatch(group) ==
    LET M == { i \in 1..(Len(group) - 1) :
                 group[i] = DataField /\ group[i + 1] = Space }
        first == CHOOSE i \in M : \A j \in M : i <= j
    IN  IF M = {} THEN Null
        ELSE Text(SubSeq(group, first + 2, lineEnd(group, first + 2) - 1))

\* part_001:92  JSON.parse(rawData): the text is the whole serialization of
\*              one value, white space around it allowed
parseData(raw) ==
    LET t == dropSpaceEnd(dropSpace(raw))
    IN  IF /\ Len(t) = 2 /\ "piece" \in DOMAIN t[1]
          /\ t[1] = Piece(t[1].of, 1) /\ t[2] = Piece(t[1].of, 2)
          THEN [ok |-> TRUE, value |-> t[1].of]
          ELSE [ok |-> FALSE, value |-> Null]

\* part_001:86  eventMatch[1].trim(), as the name the switch compares
eventTypeOf(capture) ==
    LET t == dropSpaceEnd(dropSpace(capture.lexemes))
    IN  IF Len(t) = 1 /\ "tok" \in DOMAIN t[1] THEN t[1].tok ELSE ""

\* part_001:31-33  showNotification
showNotification(c, message) ==
    [c EXCEPT !.notification = [message |-> message, type |-> "success"]]

\* part_001:65  let currentResults = {}: no member is set
NoResults ==
    [set_id |-> Null, line_text |-> Null, stage1 |-> Null, stage2 |-> Null,
     stage3 |-> Null]

\* part_001:102, 113, 120  currentResults = {...}; setResults(currentResults)
setBoth(c, r) == [c EXCEPT !.currentResults = r, !.results = r]

\* part_001:98-130  the switch on the type of one parsed event.  A type that
\*                  no case names, and ping, change nothing; `error` throws.
dispatch(c0, type, data, lineText) ==
    LET c == [c0 EXCEPT !.dispatched = Append(@, [type |-> type, data |-> data])]
    IN  CASE type = "start" ->
               setBoth(c, [c.currentResults EXCEPT !.set_id = Get(data, "set_id"),
                                                   !.line_text = lineText])
          [] type = "progress" -> showNotification(c, Get(data, "message"))
          [] type = "result_stage1" ->
               LET r == setBoth(c, [c.currentResults EXCEPT
                                      !.stage1 = Get(data, "stage1"),
                                      !.stage2 = Get(data, "stage2")])
               IN  IF "stage1" \in DOMAIN data /\ Len(data.stage1) > 0
                     THEN [r EXCEPT !.selectedFeedbackId = data.stage1[1].feedback_id]
                     ELSE r
          [] type = "result_stage3" ->
               setBoth(c, [c.currentResults EXCEPT !.stage3 = Get(data, "stage3")])
          [] type = "error" -> [c EXCEPT !.thrown = [message |-> Get(data, "message")]]
          [] type = "done" -> showNotification(c, "Analysis complete!")
          [] OTHER -> c

\* part_001:82-131  one group of the buffer: it is dispatched when both
\*                  patterns match and the data parses, and skipped otherwise
onGroup(c, group, lineText) ==
    IF eventMatch(group) = Null \/ dataMatch(group) = Null THEN c
    ELSE LET parsed == parseData(dataMatch(group).lexemes)
         IN  IF parsed.ok
               THEN dispatch(c, eventTypeOf(eventMatch(group)), parsed.value, lineText)
               ELSE c

RECURSIVE forGroups(_, _, _)
\* part_001:81  for (const group of lines), left by the throw of an `error`
\*              event
forGroups(c, groups, lineText) ==
    IF groups = <<>> \/ c.thrown # Null THEN c
    ELSE forGroups(onGroup(c, Head(groups), lineText), Tail(groups), lineText)

\* a catch block that also drops the results shown
catchDropsResults(c, err) ==
    [c EXCEPT !.error = err, !.thrown = Null, !.results = Null]

\* part_001:134-136  catch (err): setError(err.message)
catchError(c, err) == [c EXCEPT !.error = err, !.thrown = Null]

\* part_001:137-139  finally: setLoading(false), and handleGenerate returns
settled(c) == [c EXCEPT !.loading = FALSE, !.pc = "returned"]

\* part_001:72-132  one chunk appended to the buffer and the complete groups
\*                  of the buffer dispatched
onChunk(c, chunk, lineText) ==
    LET lines == splitBlank(c.buffer \o chunk)
    IN  forGroups([c EXCEPT !.buffer = pop(lines)], complete(lines), lineText)

\* part_001:14-21  the state of App before Generate is pressed; read counts
\*                 the lexemes of the body that the reader has handed over,
\*                 dispatched lists the events that reached the switch
Mounted ==
    [pc |-> "idle", loading |-> FALSE, error |-> Null, results |-> Null,
     selectedFeedbackId |-> Null, notification |-> Null, buffer |-> <<>>,
     currentResults |-> NoResults, thrown |-> Null, read |-> 0,
     dispatched |-> <<>>]

\* the lines typed: nothing, a blank, a line
LinesTyped == { Str(<<>>), Str(<< " " >>), Str(<< "h", "i" >>) }

\* the primary records of the first k workers
streamedRecords(k) == [r \in 1..k |-> primaryRecord(Reaction("A"), r, 0)]

RECURSIVE perWorker(_)
\* index.js:211-212  the two events that each of the first k workers writes
perWorker(k) ==
    IF k = 0 THEN <<>>
    ELSE perWorker(k - 1)
         \o << [type |-> "result_stage1", data |-> resultStage1(streamedRecords(k), <<>>)],
               [type |-> "progress", data |-> received(k, k)] >>

\* index.js:236-264  the events a session may end with after k records: done
\*                   alone, the synthesis and done, the failed synthesis and
\*                   done, the error of the outer catch
Endings(k) ==
    LET doneEvent == [type |-> "done", data |-> [set_id |-> uuidv4]]
        synth == [type |-> "progress", data |-> [message |-> "Synthesizing reviews..."]]
    IN  IF k = 0 THEN { << doneEvent >> }
        ELSE { << doneEvent >>,
               << synth, [type |-> "result_stage3", data |-> [stage3 |-> Str(<<"s">>)]],
                  doneEvent >>,
               << synth, [type |-> "error",
                          data |-> [message |-> "Review generation failed"]],
                  doneEvent >>,
               << [type |-> "error", data |-> [message |-> "Analysis failed"]] >> }

\* index.js:73-75  the ping that the interval may write after the opening
Pings == { <<>>, << [type |-> "ping", data |-> [timestamp |-> 0]] >> }

\* index.js:51-270  the event streams of finished sessions with up to
\*                  MaxStreamed records
ServerStreams ==
    UNION { { opening(uuidv4) \o p \o perWorker(k) \o e :
                p \in Pings, e \in Endings(k) } : k \in 0..MaxStreamed }

\* a finished session with its stream, and App mounted with a line typed in
InitClient ==
    /\ arg \in LinesTyped
    /\ ret = Null
    /\ req = Null
    /\ env = [n \in EnvNames |-> TRUE]
    /\ server = "listening"
    /\ reviewerEnabled = TRUE
    /\ pc = "closed"
    /\ status = 200
    /\ set_id = uuidv4
    /\ line_text = <<"h", "i">>
    /\ worker = [r \in Roles |-> "idle"]
    /\ stage1Results = <<>>
    /\ stage2Results = <<>>
    /\ completedCount = 0
    /\ stage3 = Null
    /\ events \in ServerStreams
    /\ keepAlive = FALSE
    /\ resEnded = TRUE
    /\ now = 0
    /\ agentCalls = <<>>
    /\ reviewArg = Null
    /\ client = Mounted
    /\ esLog = <<>>
    /\ reviewerLog = <<>>
    /\ bulkBody = <<>>
    /\ bulkLog = <<>>
    /\ stored = <<>>
    /\ esDocs = <<>>

\* everything but the browser
outsideClient ==
    << arg, ret, req, env, server, reviewerEnabled, pc, status, set_id, line_text,
       worker, stage1Results, stage2Results, completedCount, stage3, events,
       keepAlive, resEnded, now, agentCalls, reviewArg, esLog, reviewerLog,
       bulkBody, bulkLog, stored, esDocs >>

\* part_001:35-44  Generate is pressed: nothing happens on a blank line;
\*                 otherwise the state is reset and the request is sent
handleGenerate ==
    /\ client.pc = "idle"
    /\ client' = IF trim(arg.chars) = <<>>
                   THEN [client EXCEPT !.pc = "returned"]
                   ELSE showNotification(
                          [client EXCEPT !.pc = "fetching", !.loading = TRUE,
                                         !.error = Null, !.results = Null,
                                         !.selectedFeedbackId = Null],
                          "Connecting to comedy cortex...")
    /\ UNCHANGED outsideClient

\* part_001:48-65  fetch resolves.  A response that is not OK throws the
\*                 message of its body, or 'Connection failed' when the body
\*                 has none
fetchResolves(ok, message) ==
    /\ client.pc = "fetching"
    /\ client' = IF ok
                   THEN [client EXCEPT !.pc = "reading", !.buffer = <<>>,
                                       !.currentResults = NoResults]
                   ELSE settled(catchError(client,
                          [message |-> IF message # "" THEN message
                                       ELSE "Connection failed"]))
    /\ UNCHANGED outsideClient

\* part_001:48, 68, 134-139  fetch, or a read of the body, rejects: the
\*                           network failed
networkFails ==
    /\ client.pc \in {"fetching", "reading"}
    /\ client' = settled(catchError(client, [message |-> "Failed to fetch"]))
    /\ UNCHANGED outsideClient

\* part_001:67-133  reader.read() resolves with the next n lexemes of the
\*                  body; the throw of an `error` event is caught at 134
read(n) ==
    /\ client.pc = "reading"
    /\ n \in 1..(Len(body(events)) - client.read)
    /\ \E c \in { onChunk([client EXCEPT !.read = @ + n],
                          SubSeq(body(events), client.read + 1, client.read + n),
                          arg) } :
         client' = IF c.thrown # Null THEN settled(catchError(c, c.thrown)) ELSE c
    /\ UNCHANGED outsideClient

\* part_001:68-69, 137-139  reader.read() resolves with done: the body has
\*                          ended
readDone ==
    /\ client.pc = "reading"
    /\ client.read = Len(body(events))
    /\ client' = settled(client)
    /\ UNCHANGED outsideClient

\* part_001:24-29  the timer of the notification fires
notificationExpires ==
    /\ client.notification # Null
    /\ client' = [client EXCEPT !.notification = Null]
    /\ UNCHANGED outsideClient

NextClient ==
    \/ handleGenerate
    \/ \E ok \in BOOLEAN, message \in {"", "line_text is required"} :
         fetchResolves(ok, message)
    \/ networkFails
    \/ \E n \in 1..Len(body(events)) : read(n)
    \/ readDone
    \/ notificationExpires

SpecClient == InitClient /\ [][NextClient]_vars

\* ---------------------------------------------------------------------------
\* Properties
\* ---------------------------------------------------------------------------

\* positions of the events of one type in the stream
At(type) == { i \in DOMAIN events : events[i].type = type }

\* number of events of one type in the stream
Count(type) == Cardinality(At(type))

\* the types of the events written, in order
Types == [i \in DOMAIN events |-> events[i].type]

\* the last n event types of the stream
LastTypes(n) == SubSeq(Types, Len(events) - n + 1, Len(events))

\* the first storeDocsToES call of the session threw
PersistFailed == bulkLog # <<>> /\ bulkLog[1] = "failed"

\* the reviewer call or the stage-3 store threw
SynthesisFailed ==
    \/ reviewerLog # <<>> /\ reviewerLog[1] = "threw"
    \/ Len(bulkLog) >= 2 /\ bulkLog[2] = "failed"

\* C1: every accepted session has written a `done` event by the time its
\* handler has finished, whichever of its external calls failed.
C1_DoneOnEveryPath == pc = "closed" => Count("done") >= 1

\* C2: a session writes at most one `done` event; it carries the session's
\* set_id, it is the last event of the stream (no start, progress, result,
\* error or ping event follows it), and the response is ended with it.
C2_DoneIsTerminal ==
    /\ Count("done") <= 1
    /\ \A i \in At("done") :
          /\ i = Len(events)
          /\ events[i].data.set_id = set_id
          /\ resEnded
          /\ ~keepAlive

\* a finished session whose stream holds a heartbeat, results and `done`
C2_Witness ==
    /\ pc = "closed"
    /\ Count("done") = 1
    /\ Count("ping") >= 1
    /\ Count("result_stage1") >= 2
    /\ Count("result_stage3") = 1

\* C3: when the first storeDocsToES call throws, the session writes one
\* session-level `error` event and then `done`; the store is not retried and
\* the reviewer is never called.
C3_PersistFailureThenDone ==
    (pc = "closed" /\ PersistFailed) =>
        /\ Len(bulkLog) = 1
        /\ reviewerLog = <<>>
        /\ Count("error") = 1
        /\ LastTypes(2) = <<"error", "done">>

\* workers by outcome
Succeeded == { r \in Roles : worker[r] = "succeeded" }
Failed    == { r \in Roles : worker[r] = "failed" }
InFlight  == { r \in Roles : worker[r] = "inflight" }

\* workers whose continuation threw after it had appended its record
Interrupted == { r \in Roles : worker[r] = "interrupted" }

\* workers from whose response a record was extracted
Recorded == Succeeded \cup Interrupted

\* every worker has completed, with a record or without
FanoutSettled == Recorded \cup Failed = Roles

\* positions of the records of worker r in a list of primary records
RecordsOf(list, r) == { i \in DOMAIN list : list[i].agent_mode = roleId[r] }

C5_WorkerFailureIsolated ==
    /\ InFlight # {} => pc = "fanout" /\ ~resEnded
    /\ Succeeded # {} =>
          \E i \in At("result_stage1") :
             \A r \in Succeeded : RecordsOf(events[i].data.stage1, r) # {}
    /\ Count("result_stage1") = Cardinality(Succeeded)
    /\ Count("error") > 0 => PersistFailed \/ SynthesisFailed
    /\ Failed = Roles =>
          /\ pc = "closed"
          /\ Types = <<"start", "progress", "done">>
          /\ stage1Results = <<>>

\* a worker succeeds after three of its siblings have failed
C5_Witness ==
    /\ Cardinality(Failed) >= 3
    /\ \E i \in At("result_stage1") :
          /\ RecordsOf(events[i].data.stage1, 6) # {}
          /\ {1, 2, 3} \subseteq Failed
    /\ InFlight # {}

\* a is an initial segment of b
IsPrefix(a, b) == Len(a) <= Len(b) /\ SubSeq(b, 1, Len(a)) = a

\* the number of result_stage1 events up to position i
Rank(i) == Cardinality({ j \in At("result_stage1") : j <= i })

\* the concepts embedded in a primary record: the elements that are not null
Embedded(rec) ==
    IF isArray(rec.concepts)
      THEN { c \in DOMAIN rec.concepts.array : rec.concepts.array[c] # Null }
      ELSE {}

RECURSIVE TotalConcepts(_)
\* the number of concepts embedded in a list of primary records
TotalConcepts(list) ==
    IF list = <<>> THEN 0
    ELSE Cardinality(Embedded(Head(list))) + TotalConcepts(Tail(list))

\* the stage2 list holds exactly the secondary records of the stage1 list
Stage2Complete(stage1, stage2) ==
    /\ Len(stage2) = TotalConcepts(stage1)
    /\ \A m \in DOMAIN stage1 :
             \A c \in Embedded(stage1[m]) :
                \E j \in DOMAIN stage2 :
                   /\ stage2[j].parent_feedback_id = stage1[m].feedback_id
                   /\ stage2[j].concept_id.idx = c - 1
                   /\ stage2[j].angle_name = stage1[m].concepts.array[c].angle_name

\* every result_stage1 event written so far is cumulative
Cumulative ==
    \A i \in At("result_stage1") :
       LET e == events[i].data
       IN  /\ Len(e.stage1) = Rank(i)
           /\ IsPrefix(e.stage1, stage1Results)
           /\ IsPrefix(e.stage2, stage2Results)
           /\ Stage2Complete(e.stage1, e.stage2)
           /\ \A j \in At("result_stage1") :
                 j < i => /\ IsPrefix(events[j].data.stage1, e.stage1)
                          /\ IsPrefix(events[j].data.stage2, e.stage2)

\* a worker that completes with a record puts it last in the next event
CompletionOrder ==
    \A r \in Roles :
       (worker[r] = "inflight" /\ worker'[r] = "succeeded") =>
          \E i \in DOMAIN events' :
             /\ i > Len(events)
             /\ events'[i].type = "result_stage1"
             /\ LET st1 == events'[i].data.stage1
                IN  /\ Len(st1) = Len(stage1Results) + 1
                    /\ SubSeq(st1, 1, Len(stage1Results)) = stage1Results
                    /\ st1[Len(st1)].agent_mode = roleId[r]

\* C6: result_stage1 events are cumulative and append-only: the k-th one
\* carries exactly k primary records, in the order in which the workers
\* completed; its stage1 and stage2 lists extend those of every earlier event
\* as prefixes; its stage2 list holds every secondary record derived from
\* its stage1 list.
C6_CumulativeResults == [](Cumulative) /\ [][CompletionOrder]_vars

\* positions of the progress event that opens synthesis (index.js:238)
SynthAt ==
    { i \in At("progress") : events[i].data.message = "Synthesizing reviews..." }

\* the session has entered synthesis (getReview was called)
SynthInvoked == SynthAt # {}

\* documents of one stage in the index
DocsOfStage(n) == { i \in DOMAIN esDocs : esDocs[i].stage = n }

SynthesisFailureOutcome ==
    (pc = "closed" /\ SynthesisFailed) =>
        /\ Count("error") = 1
        /\ Count("result_stage3") = 0
        /\ LastTypes(2) = <<"error", "done">>
        /\ Count("result_stage1") = Cardinality(Succeeded)
        /\ \A i \in At("result_stage1") :
              /\ IsPrefix(events[i].data.stage1, stage1Results)
              /\ IsPrefix(events[i].data.stage2, stage2Results)

\* C8: a synthesis failure is not fatal.  If the reviewer call or the
\* stage-3 store throws, the session writes exactly one `error` event, no
\* result_stage3 event, and then `done`; the events written before are left
\* as they were (the stream only grows).
C8_SynthesisFailureNonFatal ==
    [](SynthesisFailureOutcome) /\ [][IsPrefix(events, events')]_vars

\* a finished session whose reviewer call threw after three workers succeeded
C8_Witness ==
    /\ pc = "closed"
    /\ reviewerLog = <<"threw">>
    /\ Count("result_stage1") = 3
    /\ Count("error") = 1

C10_DegenerateReview ==
    (pc # "getReview" /\ (reviewArg = Null \/ Len(reviewArg.array) < 2)) =>
        /\ pc = "returned"
        /\ reviewerLog = <<>>
        /\ stage3.divergence_score = 0
        /\ stage3.risk_level = "low"
        /\ stage3.primary_conflict = Str(<<"N", "/", "A">>)

\* getReview has returned from a call with exactly one primary record
C10_Witness ==
    /\ pc = "returned"
    /\ reviewArg # Null
    /\ Len(reviewArg.array) = 1
    /\ reviewerLog = <<>>

\* every character of the line is a blank
Blank(cs) == \A i \in DOMAIN cs : cs[i] = " "

\* the request received carries no usable line_text
InvalidRequest == req # Null /\ (req.type # "string" \/ Blank(req.chars))

\* C12: a request whose line_text is missing, not a string, empty or
\* whitespace-only is answered 400 and leaves no trace: no event written,
\* no keep-alive timer, no agent call, no store request, no document, no
\* session identity.
C12_InvalidRejected ==
    InvalidRequest =>
        /\ status = 400
        /\ pc = "rejected"
        /\ resEnded
        /\ events = <<>>
        /\ ~keepAlive
        /\ agentCalls = <<>>
        /\ \A r \in Roles : worker[r] = "idle"
        /\ bulkLog = <<>> /\ bulkBody = <<>> /\ esDocs = <<>>
        /\ reviewerLog = <<>>
        /\ set_id = Null

\* a whitespace-only line was rejected
C12_Witness ==
    /\ req # Null
    /\ req.type = "string"
    /\ Len(req.chars) = 2
    /\ Blank(req.chars)
    /\ status = 400

\* the timer runs only while the handler of an accepted session is suspended
TimerWithinSession ==
    /\ keepAlive => status = 200 /\ pc \in {"fanout", "store1", "review", "store2"}
    /\ resEnded => ~keepAlive

\* C13: the keep-alive timer is cleared on every exit path of the handler
\* (normal end, synthesis failure, persistence failure) no later than the
\* response is ended; once the response is ended no event, and so no ping,
\* is written, and the timer is not running.
C13_KeepAliveCleared ==
    [](TimerWithinSession) /\ [][resEnded => (events' = events /\ ~keepAlive')]_vars

\* a session that wrote a heartbeat and ended through the outer catch
C13_Witness ==
    /\ pc = "closed"
    /\ PersistFailed
    /\ Count("ping") >= 1
    /\ ~keepAlive

\* C14: an accepted session has written exactly one `start` event, as the
\* first event of its stream, and the set_id it carries is the one of the
\* session's `done` event, of its agent conversations and of every document
\* it sends to the store.
C14_StartFirst ==
    status = 200 =>
        /\ Count("start") = 1
        /\ events[1].type = "start"
        /\ events[1].data.set_id = set_id
        /\ \A i \in At("done") : events[i].data.set_id = events[1].data.set_id
        /\ \A i \in DOMAIN agentCalls : agentCalls[i].set_id = events[1].data.set_id
        /\ \A i \in DOMAIN bulkBody : bulkBody[i].set_id = events[1].data.set_id
        /\ \A i \in DOMAIN esDocs : esDocs[i].set_id = events[1].data.set_id

\* a finished session with a heartbeat, stored documents and `done`
C14_Witness ==
    /\ pc = "closed"
    /\ Count("ping") >= 1
    /\ Count("done") = 1
    /\ Len(esDocs) >= 2
    /\ events[2].type # "ping"

\* every primary record carries the identity of a worker, once
ModesDistinct ==
    /\ Len(stage1Results) <= 6
    /\ \A i \in DOMAIN stage1Results :
          /\ \E r \in Recorded : stage1Results[i].agent_mode = roleId[r]
          /\ stage1Results[i].agent_mode = stage1Results[i].feedback_id.f
          /\ \A j \in DOMAIN stage1Results :
                stage1Results[j].agent_mode = stage1Results[i].agent_mode => j = i

\* the record a completing worker appends carries that worker's role id
ModeOfProducer ==
    \A r \in Roles :
       (worker[r] = "inflight" /\ worker'[r] \in {"succeeded", "interrupted"}) =>
          /\ Len(stage1Results') = Len(stage1Results) + 1
          /\ stage1Results'[Len(stage1Results')].agent_mode = roleId[r]

\* C15: every primary record has the role id of the worker that produced
\* it as its agent_mode, whatever the extracted text said; no two records
\* of a session share an agent_mode, and there are at most 6 of them.
C15_AgentModeForced == [](ModesDistinct) /\ [][ModeOfProducer]_vars

\* six records, of which at most one came from a text naming its own role
C15_Witness ==
    /\ Len(stage1Results) = 6
    /\ stage1Results[1].agent_mode = "inferred"
    /\ stage1Results[6].agent_mode = "the_skeptic"

\* a second application returns what the first returned
Idempotent == pc = "renormalized" => ret.x = arg.x

\* a label and the label with its operands exchanged have one canonical form
OrderIndependent ==
    (pc \in {"normalized", "renormalized"} /\ ret.pair) => ret.x = ret.y

\* C16: normalizeConflict is idempotent on every label and gives 'A vs B'
\* and 'B vs A' the same result, with or without a period after 'vs' and in
\* any letter case.
C16_ConflictCanonical == Idempotent /\ OrderIndependent

\* C18: whatever the agent response (null, a non-string output or message,
\* a steps array with a null element), the chain throws nothing, and a
\* response with the record's fields directly in it always yields a record,
\* since the whole-payload serialization is attempted whatever an earlier
\* strategy did.
C18_NoThrowPastExtraction ==
    pc = "extracted" =>
        /\ ret # Threw
        /\ (isObject(arg.payload) /\ shapeValid(arg.payload)) => isObject(ret)

\* C20: for each documented payload shape the chain yields the expected
\* record, and for an unparseable payload it yields no record and does not
\* throw.
C20_ShapesRecovered ==
    (pc = "extracted" /\ arg \in ShapeCases) => ret = arg.expected

\* the contents of the message-creation steps of a response, in order
StepContents(a) ==
    LET steps == Get(a, "steps")
        F[i \in 0..MaxSteps + 1] ==
            IF i = 0 \/ ~isArray(steps) THEN <<>>
            ELSE IF i > Len(steps.array) THEN F[i - 1]
            ELSE LET st == steps.array[i]
                 IN  IF /\ isObject(st)
                        /\ "type" \in DOMAIN st
                        /\ st.type = "message_creation"
                      THEN Append(F[i - 1], Get(st, "content"))
                      ELSE F[i - 1]
    IN  F[MaxSteps + 1]

\* the candidates of a response in the fixed order of the chain: output,
\* message, response.message, response.output, the step contents, the
\* serialization of the whole response
Locations(a) ==
    << Get(a, "output"), Get(a, "message"),
       Get(Get(a, "response"), "message"), Get(Get(a, "response"), "output") >>
    \o StepContents(a)
    \o << JSONstringify(a) >>

\* the record a candidate holds when it is parsed by itself
Holds(candidate) == IF truthy(candidate) THEN parseCandidate(candidate) ELSE Null

\* the record of the first location that holds one is the one yielded
FirstValidWins ==
    LET L == Locations(arg.payload)
        V == { i \in DOMAIN L : Holds(L[i]) # Null }
    IN  V # {} => \E i \in V : /\ \A j \in V : i <= j
                               /\ ret = Holds(L[i])

\* C19: the chain is ordered and short-circuiting: when locations of a
\* response hold shape-valid records, the record yielded is the one of the
\* first of them in the order output, message, response.message,
\* response.output, steps content, whole serialization; locations after it
\* never replace it and locations before it that hold no valid record are
\* passed over.
C19_FirstValidWins == pc = "extracted" => FirstValidWins

\* the same, for the responses on which the chain does not throw
FirstValidWinsUnlessThrown == (pc = "extracted" /\ ret # Threw) => FirstValidWins

\* output parses but is not shape-valid, message and two later locations
\* hold records: the record of message is the one yielded
FirstValidWinsReached ==
    /\ pc = "extracted"
    /\ isObject(arg.payload)
    /\ Get(arg.payload, "output") = Text(<< Doc(NoShape) >>)
    /\ Get(arg.payload, "message") = Text(<< Prose, Space, Doc(Rec("2")), Space, Prose >>)
    /\ Get(Get(arg.payload, "response"), "message") = Text(<< Doc(Rec("3")) >>)
    /\ Get(arg.payload, "feedback_text") = Str(<<"6">>)
    /\ ret = Rec("2")


\* the members of a SynthesisRecord
AssessmentMembers ==
    { "reasoning", "divergence_score", "risk_level", "primary_conflict",
      "conflict_summary", "recommendation" }

RECURSIVE Carries(_)
\* the reply v holds a member of an assessment: in itself, in output, message
\* or response, in a step, or in JSON that one of these holds as text
Carries(v) ==
    IF isObject(v)
      THEN \/ DOMAIN v \cap AssessmentMembers # {}
           \/ \E k \in DOMAIN v \cap {"output", "message", "response", "steps",
                                      "params", "data"} : Carries(v[k])
    ELSE IF isArray(v) THEN \E i \in DOMAIN v.array : Carries(v.array[i])
    ELSE IF isText(v)
      THEN \E i \in DOMAIN v.lexemes :
              "json" \in DOMAIN v.lexemes[i] /\ Carries(v.lexemes[i].json)
    ELSE FALSE

\* C11: when the reply of the reviewer holds nothing of an assessment,
\* parseReviewerResponse does not throw and returns exactly the default
\* record: divergence_score 0, risk_level 'unknown', primary_conflict
\* 'None detected', the three placeholder texts, and no other member.
C11_DefaultOnFailure ==
    (pc = "parsed" /\ ~Carries(arg)) => ret = pendingResult

\* characters that are punctuation
Punctuation == { ".", "/" }

\* the label is lower-cased, stripped of punctuation, and its operands are in
\* alphabetical order
Canonical(c) ==
    /\ isStr(c)
    /\ \A i \in DOMAIN c.chars :
          toLowerCase(c.chars[i]) = c.chars[i] /\ c.chars[i] \notin Punctuation
    /\ LET operands == split(c.chars, vs)
       IN  \A i \in 1..(Len(operands) - 1) : ~before(operands[i + 1], operands[i])

\* C17: every record that getReview returns, be it extracted from the reply,
\* the default after a failed extraction, or the record for fewer than two
\* reactions, has its primary_conflict in canonical form.
C17_CanonicalConflict ==
    pc = "returned" => Canonical(stage3.primary_conflict)


\* a reaction or a rating is among the members of the record
Usable(rec) ==
    DOMAIN rec \cap {"feedback_text", "relatability", "laugh_potential",
                     "crowd_energy"} # {}

\* C21: a worker succeeds (the chain yields the record its response holds)
\* exactly when that record has a reaction (feedback_text) or one of the
\* ratings relatability, laugh_potential, crowd_energy; a record whose only
\* such member is one rating is accepted.
C21_ReactionOrRating ==
    (pc = "extracted" /\ arg.shape = "candidate") =>
        IF Usable(arg.expected) THEN ret = arg.expected ELSE ret = Null

\* the items of the pages received, concatenated
RECURSIVE Listed(_)
Listed(pages) ==
    IF pages = <<>> THEN <<>> ELSE Head(pages).items \o Listed(Tail(pages))

\* the analyses the index holds
Analyses == { esDocs[i].set_id : i \in DOMAIN esDocs }

\* the pages (L, 0), (L, L), (L, 2L), ... were all received
Paged ==
    /\ pc = "paged"
    /\ \A p \in DOMAIN ret : ret[p].limit = arg.limit /\ ret[p].offset = (p - 1) * arg.limit

\* C22: over a fixed history, the pages requested at offsets 0, L, 2L, ...
\* hold no analysis twice, their concatenation lists every analysis of the
\* history, and it is ordered by created_at, latest first.
C22_HistoryPages ==
    Paged =>
        \E all \in { Listed(ret) } :
            /\ \A i, j \in DOMAIN all : i # j => all[i].set_id # all[j].set_id
            /\ { all[i].set_id : i \in DOMAIN all } = Analyses
            /\ \A i \in 1..(Len(all) - 1) : all[i].created_at >= all[i + 1].created_at

\* the search requests findSimilarJokes has issued and seen return
Searched(kind) ==
    { i \in DOMAIN esLog : esLog[i].search = kind /\ esLog[i].outcome # "pending" }

\* /api/similar has answered with a list of similar jokes
Answered == pc = "responded" /\ status = 200

\* the analysis named by exclude_set_id is indexed on the very line asked for
BestMatchExcluded ==
    /\ truthy(arg.exclude_set_id)
    /\ \E i \in DOMAIN esDocs :
          /\ esDocs[i].set_id = arg.exclude_set_id.num
          /\ esDocs[i].stage = 1
          /\ esDocs[i].line_text = arg.line_text

\* C23: the list findSimilarJokes returns for an excludeSetId holds no entry
\* of that set_id, whether the semantic search or the more_like_this fallback
\* produced it, and also when the excluded analysis is about the very line.
C23_ExcludedNeverReturned ==
    (Answered /\ truthy(arg.exclude_set_id)) =>
        \A i \in DOMAIN ret.similar : ret.similar[i].set_id # arg.exclude_set_id.num

\* the excluded analysis is the best match and another analysis is listed,
\* by the fallback search
C23_Witness ==
    /\ Answered
    /\ BestMatchExcluded
    /\ Searched("more_like_this") # {}
    /\ Len(ret.similar) >= 1

\* the same, listed by the semantic search
C23_SemanticReached ==
    /\ Answered
    /\ BestMatchExcluded
    /\ Searched("more_like_this") = {}
    /\ Len(ret.similar) >= 1

\* the semantic search was made and gave no aggregations
PrimaryUnavailable ==
    /\ pc = "responded"
    /\ esLog # <<>>
    /\ esLog[1].search = "semantic"
    /\ esLog[1].outcome \in SearchFailures

\* the last fallback search threw
FallbackFailed ==
    /\ esLog # <<>>
    /\ esLog[Len(esLog)].search = "more_like_this"
    /\ esLog[Len(esLog)].outcome \in {"threw", "empty_body"}

\* what a caller sees of a list answered by the semantic search
ListMembers == {"set_id", "line_text", "score", "crowd_energy", "created_at"}

\* C24: when the semantic search is unavailable (it throws, answers with a
\* status other than 200 or without aggregations), /api/similar answers 200
\* with the list of the fallback search, in a body that has the members of a
\* semantic answer and nothing that tells the fallback was used; the answer
\* is an error only if the fallback search itself failed.
C24_FallbackUnobserved ==
    /\ (PrimaryUnavailable /\ ~FallbackFailed) =>
          /\ status = 200
          /\ Searched("more_like_this") # {}
          /\ DOMAIN ret = {"similar", "count"}
          /\ ret.count = Len(ret.similar)
          /\ \A i \in DOMAIN ret.similar : DOMAIN ret.similar[i] = ListMembers
    /\ (Answered /\ Searched("more_like_this") = {}) =>
          \A i \in DOMAIN ret.similar : DOMAIN ret.similar[i] = ListMembers
    /\ (pc = "responded" /\ status = 500) => FallbackFailed

\* the semantic search threw and the fallback search listed a joke
C24_Witness ==
    /\ PrimaryUnavailable
    /\ esLog[1].outcome = "threw"
    /\ status = 200
    /\ Len(ret.similar) >= 1

\* the sub-aggregates a query of which threw
FailedAggregates ==
    { SubAggregates[i] : i \in { j \in DOMAIN SubAggregates :
        \E e \in DOMAIN esLog :
            esLog[e].search = SubAggregates[j] /\ esLog[e].outcome = "threw" } }

\* C25: getAllInsights never rejects, whichever of its six sub-aggregates
\* fail; in what it returns each failed sub-aggregate has its default value
\* ([] or {total_jokes: 0, avg_divergence: 0}) and each other one the value
\* it computed.
C25_InsightsDegrade ==
    /\ pc # "rejected"
    /\ pc = "returned" =>
          \A i \in DOMAIN SubAggregates :
              LET name == SubAggregates[i]
              IN  IF name \in FailedAggregates
                    THEN ret[name] = (IF name = "summary"
                                        THEN [total_jokes |-> 0, avg_divergence |-> 0]
                                        ELSE Array(<<>>))
                    ELSE ret[name] = computed(esLog, name)

\* getAllInsights returned after some sub-aggregates failed, the summary
\* among them, and others computed rows
C25_Witness ==
    /\ pc = "returned"
    /\ "summary" \in FailedAggregates
    /\ "topConflicts" \in FailedAggregates
    /\ "riskDistribution" \notin FailedAggregates
    /\ ret.riskDistribution # Array(<<>>)
    /\ ret.successfulModes # Array(<<>>)

\* deleteBySetId(s) has succeeded
Deleted(s) ==
    /\ esLog # <<>>
    /\ esLog[1].search = "delete"
    /\ esLog[1].outcome = "ok"
    /\ esLog[1].set_id = s

\* the documents of the analyses other than s, in the order of the index
OthersIn(docs, s) == SelectSeq(docs, LAMBDA d : d.set_id # s)

\* after deleteBySetId(arg.set_id) succeeded, fetchDocsFromES was called for
\* the same set id and returned
FetchedAfterDelete ==
    /\ pc = "fetched"
    /\ status = 200
    /\ Deleted(arg.set_id)

CallsOf(r) == { i \in DOMAIN agentCalls : agentCalls[i].roleId = roleId[r] }

\* the agent call of worker r has resolved or thrown
Settled(r) == worker[r] \in {"succeeded", "interrupted", "failed"}

\* C27: a session calls the agent exactly once for each of the six
\* perspectives and the reviewer at most once; a call that failed is not
\* issued again.
C27_NoRetries ==
    /\ [](/\ status = 200 =>
                /\ Len(agentCalls) = Len(perspectives)
                /\ \A r \in Roles : Cardinality(CallsOf(r)) = 1
          /\ Len(reviewerLog) <= 1)
    /\ [][/\ \A r \in Roles : Settled(r) => worker'[r] = worker[r]
          /\ agentCalls # <<>> => agentCalls' = agentCalls
          /\ reviewerLog # <<>> => Len(reviewerLog') = Len(reviewerLog)]_vars

\* a session ended after agent calls and the reviewer call had failed
C27_Witness ==
    /\ pc = "closed"
    /\ Cardinality(Failed) >= 2
    /\ reviewerLog = << "threw" >>
    /\ Len(agentCalls) = 6

\* set ids of sessions other than the one observed
OtherSetIds == { [uuid |-> 2], [uuid |-> 3] }

\* C28: the six agent calls of a session carry pairwise distinct conversation
\* scopes, the scope of a worker being the set_id of the session joined with
\* the role id of the worker, and a session of another set_id uses none of them.
C28_ScopesDistinct ==
    status = 200 =>
        /\ \A r \in Roles : agentCalls[r] = [set_id |-> set_id, roleId |-> roleId[r]]
        /\ \A r1, r2 \in Roles : r1 # r2 => agentCalls[r1] # agentCalls[r2]
        /\ \A u \in OtherSetIds : \A r1, r2 \in Roles :
              conversationId(u, r1) # agentCalls[r2]

\* the six calls of a session are in flight
C28_Witness ==
    /\ pc = "fanout"
    /\ status = 200
    /\ Len(agentCalls) = Len(perspectives)
    /\ \A r \in Roles : worker[r] = "inflight"

\* C29: the primary records of one analysis have pairwise distinct
\* feedback_id values, also when two of them were built at the same value of
\* the clock.
C29_FeedbackIdsDistinct ==
    \A i, j \in DOMAIN stage1Results :
        i # j => stage1Results[i].feedback_id # stage1Results[j].feedback_id

\* two workers completed at the same clock value, after the clock had advanced
C29_Witness ==
    /\ Len(stage1Results) >= 2
    /\ stage1Results[1].feedback_id.ts = stage1Results[2].feedback_id.ts
    /\ stage1Results[1].feedback_id.ts >= 1

\* two workers completed at different clock values
C29_ClockAdvanced ==
    /\ Len(stage1Results) >= 2
    /\ stage1Results[1].feedback_id.ts < stage1Results[2].feedback_id.ts

\* the secondary records of stage2 before position j that name the parent of
\* the record at j
EarlierSiblings(stage2, j) ==
    { k \in 1..(j - 1) : stage2[k].parent_feedback_id = stage2[j].parent_feedback_id }

\* every secondary record of stage2 names a primary record of stage1 as its
\* parent, has the concept id made of that parent's id and its position among
\* the concepts of that parent, counted from 0, and shares it with no other
Integrity(stage1, stage2) ==
    /\ \A j \in DOMAIN stage2 :
          /\ \E i \in DOMAIN stage1 :
                stage2[j].parent_feedback_id = stage1[i].feedback_id
          /\ stage2[j].concept_id =
                [c |-> stage2[j].parent_feedback_id,
                 idx |-> Cardinality(EarlierSiblings(stage2, j))]
    /\ \A j, k \in DOMAIN stage2 :
          j # k => stage2[j].concept_id # stage2[k].concept_id

\* the stage 2 documents of docs name stage 1 documents of docs as parents
DocsIntegrity(docs) ==
    \A j \in DOMAIN docs :
        docs[j].stage = 2 =>
            \E i \in DOMAIN docs :
                docs[i].stage = 1 /\ docs[i].feedback_id = docs[j].parent_feedback_id

\* the fan-out has settled: stage1Results and stage2Results are the snapshot
\* handed to storeDocsToES
SnapshotTaken == pc \in {"store1", "review", "store2", "closed"} /\ FanoutSettled

OwnDocs == SelectSeq(esDocs, LAMBDA d : d.set_id = set_id)

\* the documents of one stage among them
OwnStage(n) == SelectSeq(OwnDocs, LAMBDA d : d.stage = n)

\* C31: after a session that reached `done`, the store holds for its set_id
\* exactly one document per primary record, exactly one per secondary record
\* and at most one stage-3 document: the second storeDocsToES call adds only
\* the synthesis record and never stores stage-1 or stage-2 documents again.
C31_OneDocumentPerRecord ==
    (pc = "closed" /\ Count("done") >= 1) =>
        /\ Len(OwnStage(1)) = Len(stage1Results)
        /\ \A i \in DOMAIN stage1Results :
              Cardinality({ j \in DOMAIN OwnStage(1) :
                  OwnStage(1)[j].feedback_id = stage1Results[i].feedback_id }) = 1
        /\ Len(OwnStage(2)) = Len(stage2Results)
        /\ \A i \in DOMAIN stage2Results :
              Cardinality({ j \in DOMAIN OwnStage(2) :
                  OwnStage(2)[j].parent_feedback_id
                      = stage2Results[i].parent_feedback_id }) = 1
        /\ Len(OwnStage(3)) <= 1

\* the risk levels of the specification
RiskLevels == { "low", "medium", "high", "unknown" }

\* C32: every synthesis record written in a result_stage3 event or stored in
\* the index has a risk_level among low, medium, high and unknown, whatever
\* the reply of the reviewer holds.
C32_RiskLevelInRange ==
    /\ \A i \in At("result_stage3") : events[i].data.stage3.risk_level \in RiskLevels
    /\ \A j \in DOMAIN esDocs :
          esDocs[j].stage = 3 => esDocs[j].risk_level \in RiskLevels

\* the secondary records written in some result_stage1 event
Streamed ==
    { s \in { stage2Results[i] : i \in DOMAIN stage2Results } :
        \E i \in At("result_stage1") :
           \E j \in DOMAIN events[i].data.stage2 : events[i].data.stage2[j] = s }

\* the response of GET /api/results holds the stage lists
Fetched == ret # Null /\ "stage2" \in DOMAIN ret

\* C36: a secondary record that a session streamed in result_stage1 and
\* stored through storeDocsToES comes back from fetchDocsFromES with the
\* concept_id, the parent_feedback_id, the angle_name, the explanation and
\* the exploration_direction it was streamed with.
C36_SecondaryRoundTrip ==
    (Fetched /\ bulkLog # <<>> /\ bulkLog[1] = "ok") =>
        \A s \in Streamed :
           \E j \in DOMAIN ret.stage2 :
              /\ Get(ret.stage2[j], "concept_id") = s.concept_id
              /\ Get(ret.stage2[j], "parent_feedback_id") = s.parent_feedback_id
              /\ Get(ret.stage2[j], "angle_name") = s.angle_name
              /\ Get(ret.stage2[j], "explanation") = s.explanation
              /\ Get(ret.stage2[j], "exploration_direction") = s.exploration_direction

\* the call of storeDocsToES that was in flight has ended in this step
StoreEnded == pc \in {"store1", "store2"} /\ Len(stored') = Len(stored) + 1

\* the outcome of that call's _bulk request, and what the call came to
EndedLog    == bulkLog'[Len(bulkLog')]
EndedResult == stored'[Len(stored')]

\* the events written in this step
Written == SubSeq(events', Len(events) + 1, Len(events'))

\* the step writes no `error` event
NoErrorWritten == \A i \in DOMAIN Written : Written[i].type # "error"

\* the handler goes on after the first store as it does after a clean one:
\* to synthesis when there is a primary record, to `done` otherwise
GoesOn ==
    IF Len(stage1Results) > 0
      THEN /\ pc' \in {"review", "store2"}
           /\ Written = << [type |-> "progress",
                            data |-> [message |-> "Synthesizing reviews..."]] >>
      ELSE pc' = "closed" /\ LastTypes(1)' = <<"done">>

\* C39, one step: storeDocsToES throws exactly when the bulk response is not
\* ok; on an ok response with item-level errors it returns errors = true,
\* and the handler writes no `error` event and goes on: after the first store
\* to synthesis, after the second to result_stage3 and `done`.
StoreOutcome ==
    StoreEnded =>
       /\ EndedResult = Threw <=> EndedLog = "failed"
       /\ EndedLog = "errors" =>
             /\ EndedResult = [indexed |-> Len(bulkBody), errors |-> TRUE]
             /\ NoErrorWritten
             /\ pc = "store1" => GoesOn
             /\ pc = "store2" =>
                   /\ pc' = "closed"
                   /\ [i \in DOMAIN Written |-> Written[i].type]
                         = <<"result_stage3", "done">>
       /\ EndedLog = "ok" =>
             EndedResult = [indexed |-> Len(bulkBody), errors |-> FALSE]

C40_NothingToStore ==
    (FanoutSettled /\ stage1Results = <<>> /\ stage2Results = <<>>) =>
        /\ bulkLog = <<>>
        /\ bulkBody = <<>>
        /\ esDocs = <<>>
        /\ stored = << [indexed |-> 0, errors |-> FALSE] >>
        /\ pc = "closed"
        /\ Count("error") = 0
        /\ LastTypes(1) = <<"done">>

\* the six workers have failed and the handler has finished
C40_Witness ==
    /\ Failed = Roles
    /\ pc = "closed"
    /\ stored = << skipped >>
    /\ Count("done") = 1

\* the reviewer is enabled wherever requests are accepted, and requests are
\* handled only there
ReviewerOn ==
    /\ server = "listening" =>
          /\ reviewerEnabled
          /\ env["KIBANA_URL"] /\ env["KIBANA_API_KEY"]
    /\ pc # "idle" => server = "listening"

C35_LimitInRange == pc = "semantic" => ret.num \in 1..SimilarCap

\* what a record holds beside the identity the worker stamps on it
Content(rec) == [k \in DOMAIN rec \ {"feedback_id", "agent_mode"} |-> rec[k]]

\* the outcome of worker r is the one its own response determines
OwnOutcome(r) ==
    /\ worker[r] \in {"succeeded", "interrupted"} =>
          /\ arg[r].expected # Null
          /\ Cardinality(RecordsOf(stage1Results, r)) = 1
          /\ \A i \in RecordsOf(stage1Results, r) :
                /\ Content(stage1Results[i]) = Content(arg[r].expected)
                /\ stage1Results[i].feedback_id.f = roleId[r]
    /\ worker[r] = "failed" =>
          /\ arg[r].expected = Null
          /\ RecordsOf(stage1Results, r) = {}
    /\ worker[r] = "inflight" => RecordsOf(stage1Results, r) = {}

\* C33: extraction is deterministic and workers do not interfere.  The
\* outcome of a worker, the content of the record it extracts or no record,
\* is a function of that worker's own response payload: it is the same in
\* every run on that payload, whatever the payloads and outcomes of the
\* other workers and whatever the order of completion.
C33_WorkersIsolated == \A r \in Roles : OwnOutcome(r)

\* two workers that were given the same payload have extracted the same
\* content, the later one in request order first; a worker has extracted
\* nothing from its prose, and one that was given another reaction is still
\* in flight
C33_Witness ==
    /\ Len(stage1Results) = 2
    /\ \E p, q \in Roles :
          /\ p < q
          /\ arg[p] = arg[q]
          /\ stage1Results[1].agent_mode = roleId[q]
          /\ stage1Results[2].agent_mode = roleId[p]
          /\ Content(stage1Results[1]) = Content(stage1Results[2])
          /\ \E r \in InFlight : arg[r].expected \notin {Null, arg[p].expected}
    /\ \E f \in Failed : arg[f].payload = [output |-> Text(<< Prose >>)]

\* the places of the dispatched events that are result_stage1 events
ResultsDispatched ==
    { i \in DOMAIN client.dispatched : client.dispatched[i].type = "result_stage1" }

\* the payload of the last result_stage1 event dispatched
LastLists ==
    client.dispatched[CHOOSE i \in ResultsDispatched :
                        \A j \in ResultsDispatched : j <= i].data

\* handleGenerate has returned and App shows the message of an `error` event
ErrorEventShown ==
    /\ client.pc = "returned"
    /\ client.error # Null
    /\ client.dispatched # <<>>
    /\ client.dispatched[Len(client.dispatched)].type = "error"
    /\ client.error.message = client.dispatched[Len(client.dispatched)].data.message

\* C34: in the browser the results survive a later failure: once a
\* result_stage1 event has been dispatched, the results state holds the stage1
\* and stage2 lists of the last result_stage1 event dispatched, also after an
\* `error` event or a network failure has ended handleGenerate; and whenever
\* handleGenerate has returned (blank line, end of the stream, `error` event,
\* response that is not OK, network failure) loading is false.
C34_ResultsSurviveFailure ==
    /\ client.pc = "returned" => ~client.loading
    /\ client.pc \in {"reading", "returned"} /\ ResultsDispatched # {} =>
         /\ client.results # Null
         /\ client.results.stage1 = LastLists.stage1
         /\ client.results.stage2 = LastLists.stage2

\* C34 witness: handleGenerate has returned on the `error` event of a failed
\* synthesis that came after two result_stage1 events; the results state
\* holds the two records of the second event and loading is false
C34_Witness ==
    /\ ErrorEventShown
    /\ client.error.message = "Review generation failed"
    /\ Cardinality(ResultsDispatched) = 2
    /\ client.results # Null
    /\ client.results.stage1 = streamedRecords(2)
    /\ ~client.loading

\* the number of events whose whole text stands in the first n lexemes of the
\* response body
wholeEvents(n) ==
    Cardinality({ i \in DOMAIN events : Len(body(SubSeq(events, 1, i))) <= n })

\* the events up to and including the first `error` event
UpToError ==
    LET E == { i \in DOMAIN events : events[i].type = "error" }
    IN  IF E = {} THEN events
        ELSE SubSeq(events, 1, CHOOSE i \in E : \A j \in E : i <= j)

\* C38: the reader of the browser is insensitive to chunking: however the
\* response body is cut into chunks, the events dispatched are, in the order
\* sent and each once, the events whose whole text has been read.
C38_EachEventOnce ==
    client.pc \in {"reading", "returned"} =>
        client.dispatched = SubSeq(events, 1, wholeEvents(client.read))

\* the same for the events up to and including the first `error` event
DispatchedUpToError ==
    client.pc \in {"reading", "returned"} =>
        client.dispatched = SubSeq(UpToError, 1, Min(wholeEvents(client.read), Len(UpToError)))

====
